---------------------------- MODULE Spec2Model ----------------------------
(***************************************************************************)
(* Model of the Enclave peer networking engine (enclave/src-tauri/src/p2p) *)
(* and of the part of the durable store (db/mod.rs) the engine uses.       *)
(*                                                                         *)
(* Every variable is a function over Nodes: v[n] is that piece of state of *)
(* the node whose peer identifier is n.  A handler is an action over one   *)
(* node; its inputs (the peer, the payload, which store calls return Err,  *)
(* whether the dial is refused) are parameters that the next-state         *)
(* relations draw from small sets.                                         *)
(*                                                                         *)
(* One node ("A") against an arbitrary environment, in which any peer may  *)
(* connect, disconnect and send any protocol message:                      *)
(*   Spec          the friend handshake                                    *)
(*   SpecRestart   the friend tables and loaded collections over restarts  *)
(*   SpecOutbound  outbound direct messages and their buffering            *)
(*   SpecInbound   inbound direct messages, request/response and gossip    *)
(*   SpecRead      reading a conversation while direct messages arrive     *)
(*   SpecSelf      friend requests the node sends, also to itself          *)
(*   SpecFriend    the ways into the friend set                            *)
(*   SpecIdentity  the identity row over starts and stops of the process   *)
(*   SpecShutdown  the loop when its input streams close (weakly fair)     *)
(*   SpecLegacy    direct messages at the single-file engine (p2p.rs)      *)
(*   SpecBulk      the bulk reads of the store over the db::create_* calls *)
(*   SpecDrain     the outbound buffers over connects, closes and dials    *)
(*   SpecIntegrity the references of Friend and FriendRequest rows         *)
(*   SpecBlocked   direct messages from blocked users                      *)
(*   SpecRelay     the address a friend request or response advertises     *)
(*   SpecApply     SynchResponse messages applied to the posts table       *)
(*   SpecLocks     the listen-address and relay-address mutexes            *)
(* Two nodes ("A" and "B"):                                                *)
(*   SpecPair      what one hands to its request/response channel is what  *)
(*                 the other receives                                      *)
(*   SpecSynch     the post synchronisation exchange                       *)
(***************************************************************************)
EXTENDS Integers, Sequences, FiniteSets, TLC

(***************************************************************************)
(* Bounds of the model.                                                    *)
(***************************************************************************)
MaxUsers == 2
MaxRequests == 2
MaxDMs == 2
MaxConn == 1
MaxIssued == 2
MaxFaults == 1
MaxInFlight == 2
MaxPosts == 2
MaxTime == 2
MaxListen == 2

(***************************************************************************)
(* Identifiers and payloads.                                               *)
(***************************************************************************)
Nodes == {"A", "B"}
PeerIds == {"A", "B", "C"}
Self == "A"
\* what a DirectMessage's from_peer_id string can hold on the wire: a peer
\* identifier, or text that PeerId::from_str rejects
WireSenders == {"B", "C", "system"}
Addrs == {"/ip4/1"}
Contents == {"hello"}
Messages == {"hi"}
NoAddr == ""

RemotePeers(n) == PeerIds \ {n}

\* the calls of one handler (store operations, swarm.dial) that return Err in
\* one iteration: at most MaxFaults of them
Faults(ops) == {f \in SUBSET ops : Cardinality(f) <= MaxFaults}

\* whether swarm.dial returns Ok
DialOk(faults) == "swarm.dial" \notin faults

\* PeerId::from_str
PeerIdFromStr(s) == [ok |-> s \in PeerIds, peer |-> s]

Range(s) == {s[i] : i \in DOMAIN s}

Min(S) == CHOOSE x \in S : \A y \in S : x <= y

\* mutant: the entry is read with HashMap::get and stays in the map
MapRemove_get(m, k) == m

\* HashMap::remove(&key)
MapRemove(m, k) == [x \in DOMAIN m \ {k} |-> m[x]]

\* an insert that is dropped
MapInsert_dropped(m, k, v) == m

\* HashMap::insert(key, value)
MapInsert(m, k, v) == [x \in DOMAIN m \cup {k} |-> IF x = k THEN v ELSE m[x]]

EmptyMap == [x \in {} |-> 0]

RemoveAt(s, i) == [j \in 1..(Len(s) - 1) |-> IF j < i THEN s[j] ELSE s[j + 1]]

\* Vec::pop
Pop(s) == IF s = <<>> THEN s ELSE SubSeq(s, 1, Len(s) - 1)

\* the event-loop task and the tasks that call P2PNode::get_listen_addresses
Callers == {"caller1", "caller2"}
Tasks == {"loop"} \cup Callers
NoTask == ""

\* Arc<Mutex<Vec<Multiaddr>>> listen_addresses, Arc<Mutex<Option<Multiaddr>>> relay_addr
LockNames == {"listen_addresses", "relay_addr"}

VARIABLES
    tbl_users,                          \* rows of tbl_users, in rowid order
    tbl_friend_requests,                \* rows of tbl_friend_requests
    tbl_friends,                        \* rows of tbl_friends (the user_id)
    tbl_direct_messages,                \* rows of tbl_direct_messages
    tbl_identity,                       \* rows of tbl_identity
    tbl_posts,                          \* rows of tbl_posts
    friend_list,                        \* Vec<PeerId>
    inbound_friend_requests,            \* HashMap<PeerId, FriendRequest>
    direct_messages,                    \* HashMap<PeerId, Vec<DirectMessage>>
    outbound_friend_requests,           \* HashMap<PeerId, FriendRequest>
    pending_friend_request_responses,   \* HashMap<PeerId, P2PMessage>
    outbound_direct_messages,           \* HashMap<PeerId, Vec<DirectMessage>>
    listen_addresses,                   \* Vec<Multiaddr>
    relay_addr,                         \* Option<Multiaddr>, NoAddr for None
    connections,                        \* swarm: open connections per peer
    explicit_peers,                     \* swarm: gossipsub explicit peers
    emitted,                            \* P2PEvents sent upstream by the last iteration
    sent,                               \* request_response.send_request calls of the last iteration
    dialed,                             \* swarm.dial calls of the last iteration
    net,                                \* SpecPair: the transport between the two nodes
    last,                               \* the command or event the last iteration handled
    now,                                \* chrono::Utc::now().timestamp()
    inputs,                             \* which of the loop's two input streams are open
    running,                            \* whether the node's event loop task exists
    tbl_blocked_users,                  \* rows of tbl_blocked_users (the user_id)
    locks,                              \* the two tokio Mutexes and where each task is
    config,                             \* NetworkConfig: keypair, peer_id, port of the started node
    issued                              \* history: SendDirectMessage commands per friend since its last connect

store == <<tbl_users, tbl_friend_requests, tbl_friends, tbl_direct_messages>>

buffers == <<outbound_friend_requests, pending_friend_request_responses,
             outbound_direct_messages>>

memory == <<friend_list, inbound_friend_requests, direct_messages, buffers,
            listen_addresses, relay_addr>>

swarm == <<connections, explicit_peers>>

outputs == <<emitted, sent, dialed>>

\* what the friend and message handlers neither read nor write, except
\* fetch_identity reading tbl_identity
rest == <<tbl_identity, tbl_posts, now, inputs, running, config, tbl_blocked_users, locks>>

vars == <<store, memory, swarm, outputs, net, last, issued, rest>>

(***************************************************************************)
(* The durable store (db/mod.rs).  A table is the sequence of its rows in  *)
(* rowid order; a row's id is its position.  Every operation returns       *)
(* [ok, ...]: ok = FALSE is the Err branch of anyhow::Result.              *)
(***************************************************************************)
\* SELECT ... FROM tbl_users WHERE peer_id=?1, first row
fetch_user_by_peer_id(users, peer_id) ==
    LET ids == {i \in DOMAIN users : users[i].peer_id = peer_id}
    IN  IF ids = {} THEN [ok |-> FALSE, id |-> 0]
        ELSE [ok |-> TRUE, id |-> Min(ids)]

\* SELECT ... FROM tbl_users WHERE id=?1
fetch_user_by_id(users, id) == [ok |-> id \in DOMAIN users, id |-> id]

\* INSERT INTO tbl_users: the table has no UNIQUE constraint on peer_id
create_user(users, peer_id, multiaddr) ==
    Append(users, [peer_id |-> peer_id, multiaddr |-> multiaddr])

\* mutant: tbl_friends without UNIQUE(user_id)
create_friend_not_unique(friends, users, user_id) ==
    IF user_id \in DOMAIN users
    THEN [ok |-> TRUE, rows |-> Append(friends, user_id)]
    ELSE [ok |-> FALSE, rows |-> friends]

\* INSERT INTO tbl_friends: FOREIGN KEY (user_id), UNIQUE(user_id)
create_friend(friends, users, user_id) ==
    IF user_id \in DOMAIN users /\ user_id \notin Range(friends)
    THEN [ok |-> TRUE, rows |-> Append(friends, user_id)]
    ELSE [ok |-> FALSE, rows |-> friends]

\* INSERT INTO tbl_friend_requests: FOREIGN KEY (from_user_id), no UNIQUE
create_friend_request(requests, users, from_user_id, message) ==
    IF from_user_id \in DOMAIN users
    THEN [ok |-> TRUE,
          rows |-> Append(requests, [from_user_id |-> from_user_id, message |-> message])]
    ELSE [ok |-> FALSE, rows |-> requests]

\* SELECT ... FROM tbl_friend_requests WHERE from_user_id=?1, first row
fetch_friend_request_by_from_user_id(requests, from_user_id) ==
    LET ids == {i \in DOMAIN requests : requests[i].from_user_id = from_user_id}
    IN  IF ids = {} THEN [ok |-> FALSE, id |-> 0]
        ELSE [ok |-> TRUE, id |-> Min(ids)]

\* DELETE FROM tbl_friend_requests WHERE id=?1
delete_friend_request(requests, id) ==
    IF id \in DOMAIN requests THEN RemoveAt(requests, id) ELSE requests

\* INSERT INTO tbl_direct_messages; returns last_insert_rowid
create_direct_message(dms, from_peer_id, to_peer_id, content) ==
    [id |-> Len(dms) + 1,
     rows |-> Append(dms, [from_peer_id |-> from_peer_id, to_peer_id |-> to_peer_id,
                           content |-> content])]

\* SELECT ... FROM tbl_direct_messages WHERE id=?1, as a DirectMessage
fetch_direct_message_by_id(dms, id) ==
    [id |-> id, from_peer_id |-> dms[id].from_peer_id,
     to_peer_id |-> dms[id].to_peer_id, content |-> dms[id].content]

\* SELECT ... WHERE from_peer_id=?1 OR to_peer_id=?1: Err when no row matches
fetch_direct_messages_with_peer(dms, peer_id) ==
    LET ids == {i \in DOMAIN dms : dms[i].from_peer_id = peer_id \/ dms[i].to_peer_id = peer_id}
        RECURSIVE rows(_)
        rows(i) == IF i > Len(dms) THEN <<>>
                   ELSE (IF i \in ids THEN <<fetch_direct_message_by_id(dms, i)>> ELSE <<>>)
                        \o rows(i + 1)
    IN  [ok |-> ids # {}, rows |-> rows(1)]

(***************************************************************************)
(* Wire messages (p2p/types.rs, P2PMessage) and upstream events (P2PEvent).*)
(***************************************************************************)
MsgFriendRequest(from_peer_id, from_multiaddr, message) ==
    [kind |-> "FriendRequest", from_peer_id |-> from_peer_id,
     from_multiaddr |-> from_multiaddr, message |-> message]

MsgFriendRequestResponse(accepted, multiaddr) ==
    [kind |-> "FriendRequestResponse", accepted |-> accepted, multiaddr |-> multiaddr]

MsgDirectMessage(dm) ==
    [kind |-> "DirectMessage", id |-> dm.id, from_peer_id |-> dm.from_peer_id,
     to_peer_id |-> dm.to_peer_id, content |-> dm.content]

EvError(context) == [type |-> "Error", context |-> context]

EvPeer(type, peer) == [type |-> type, peer |-> peer]

EvDirectMessage(type, msg) == [type |-> type, msg |-> msg]

EvFriendRequestReceived(from, request) ==
    [type |-> "FriendRequestReceived", from |-> from, request |-> request]

\* request_response.send_request(&peer, msg)
SendRequest(peer, msg) == [to |-> peer, msg |-> msg]

\* swarm.is_connected(&peer)
is_connected(n, peer) == connections[n][peer] > 0


\* an advertisement that would ignore the recorded relay
address_to_send_direct(n) ==
    IF listen_addresses[n] = <<>> THEN "" ELSE listen_addresses[n][1]

\* the address a FriendRequest or an accepting response advertises
address_to_send(n) ==
    IF relay_addr[n] # NoAddr
    THEN relay_addr[n] \o "/p2p-circuit/p2p/" \o n
    ELSE IF listen_addresses[n] = <<>> THEN "" ELSE listen_addresses[n][1]

\* str::parse::<Multiaddr>: every address the store holds was written by
\* Multiaddr::to_string, so it parses
MultiaddrParse(s) == [ok |-> s # NoAddr, addr |-> s]

\* what the iteration handled, and whether its peer was in the friend set when it began
Last(n, kind, peer) ==
    [node |-> n, kind |-> kind, peer |-> peer,
     friend |-> n \in Nodes /\ peer \in Range(friend_list[n])]

(***************************************************************************)
(* Network events (p2p/event_handler.rs, p2p/mod.rs handle_swarm_event).   *)
(***************************************************************************)
\* SwarmEvent::ConnectionEstablished { peer_id, endpoint }
handle_connection_established(n, peer_id, multiaddr, faults) ==
    LET cu_ok == "create_user" \notin faults
        request == IF peer_id \in DOMAIN outbound_friend_requests[n]
                   THEN <<SendRequest(peer_id, outbound_friend_requests[n][peer_id])>>
                   ELSE <<>>
        response == IF peer_id \in DOMAIN pending_friend_request_responses[n]
                    THEN <<SendRequest(peer_id, pending_friend_request_responses[n][peer_id])>>
                    ELSE <<>>
        dms == IF peer_id \in DOMAIN outbound_direct_messages[n]
               THEN [i \in DOMAIN outbound_direct_messages[n][peer_id] |->
                        SendRequest(peer_id, MsgDirectMessage(outbound_direct_messages[n][peer_id][i]))]
               ELSE <<>>
    IN  /\ connections[n][peer_id] < MaxConn
        /\ cu_ok => Len(tbl_users[n]) < MaxUsers
        /\ connections' = [connections EXCEPT ![n][peer_id] = @ + 1]
        /\ tbl_users' = [tbl_users EXCEPT ![n] =
                            IF cu_ok THEN create_user(@, peer_id, multiaddr) ELSE @]
        /\ emitted' = [emitted EXCEPT ![n] =
                          <<EvPeer("PeerConnected", peer_id)>>
                          \o (IF cu_ok THEN <<>> ELSE <<EvError("create_user")>>)]
        /\ outbound_friend_requests' =
              [outbound_friend_requests EXCEPT ![n] = MapRemove(@, peer_id)]
        /\ pending_friend_request_responses' =
              [pending_friend_request_responses EXCEPT ![n] = MapRemove(@, peer_id)]
        /\ outbound_direct_messages' =
              [outbound_direct_messages EXCEPT ![n] = MapRemove(@, peer_id)]
        /\ sent' = [sent EXCEPT ![n] = request \o response \o dms]
        /\ dialed' = [dialed EXCEPT ![n] = <<>>]
        /\ issued' = [issued EXCEPT ![n][peer_id] = <<>>]
        /\ last' = Last(n, "ConnectionEstablished", peer_id)
        /\ UNCHANGED <<tbl_friend_requests, tbl_friends, tbl_direct_messages,
                       friend_list, inbound_friend_requests, direct_messages,
                       listen_addresses, relay_addr, explicit_peers>>

\* a close that would forget what is buffered for the peer
handle_connection_closed_forgetting(n, peer_id) ==
    /\ connections[n][peer_id] > 0
    /\ connections' = [connections EXCEPT ![n][peer_id] = @ - 1]
    /\ emitted' = [emitted EXCEPT ![n] = <<EvPeer("PeerDisconnected", peer_id)>>]
    /\ outbound_friend_requests' =
          [outbound_friend_requests EXCEPT ![n] = MapRemove(@, peer_id)]
    /\ pending_friend_request_responses' =
          [pending_friend_request_responses EXCEPT ![n] = MapRemove(@, peer_id)]
    /\ outbound_direct_messages' =
          [outbound_direct_messages EXCEPT ![n] = MapRemove(@, peer_id)]
    /\ sent' = [sent EXCEPT ![n] = <<>>]
    /\ dialed' = [dialed EXCEPT ![n] = <<>>]
    /\ last' = Last(n, "ConnectionClosed", peer_id)
    /\ UNCHANGED <<store, friend_list, inbound_friend_requests, direct_messages,
                   listen_addresses, relay_addr, explicit_peers, issued>>

\* SwarmEvent::ConnectionClosed { peer_id }
handle_connection_closed(n, peer_id) ==
    /\ connections[n][peer_id] > 0
    /\ connections' = [connections EXCEPT ![n][peer_id] = @ - 1]
    /\ emitted' = [emitted EXCEPT ![n] = <<EvPeer("PeerDisconnected", peer_id)>>]
    /\ sent' = [sent EXCEPT ![n] = <<>>]
    /\ dialed' = [dialed EXCEPT ![n] = <<>>]
    /\ last' = Last(n, "ConnectionClosed", peer_id)
    /\ UNCHANGED <<store, memory, explicit_peers, issued>>

\* P2PMessage::FriendRequest(req) from `peer`
handle_friend_request(n, peer, request, faults) ==
    LET user == IF "fetch_user_by_peer_id" \in faults THEN [ok |-> FALSE, id |-> 0]
                ELSE fetch_user_by_peer_id(tbl_users[n], peer)
        cfr == IF ~user.ok \/ "create_friend_request" \in faults
               THEN [ok |-> FALSE, rows |-> tbl_friend_requests[n]]
               ELSE create_friend_request(tbl_friend_requests[n], tbl_users[n],
                                          user.id, request.message)
    IN  /\ cfr.ok => Len(tbl_friend_requests[n]) < MaxRequests
        /\ tbl_friend_requests' = [tbl_friend_requests EXCEPT ![n] = cfr.rows]
        /\ emitted' = [emitted EXCEPT ![n] =
                          <<EvFriendRequestReceived(peer, request)>>
                          \o (IF ~user.ok THEN <<EvError("fetch_user_by_peer_id")>>
                              ELSE IF ~cfr.ok THEN <<EvError("create_friend_request")>>
                              ELSE <<>>)]
        /\ sent' = [sent EXCEPT ![n] = <<>>]
        /\ dialed' = [dialed EXCEPT ![n] = <<>>]
        /\ last' = Last(n, "FriendRequest", peer)
        /\ UNCHANGED <<tbl_users, tbl_friends, tbl_direct_messages, memory, swarm, issued>>

\* a response handler that would add the peer without looking at the friend list
handle_friend_request_response_unguarded(n, peer, response, faults) ==
    LET add == response.accepted
    IN  /\ tbl_friends' = [tbl_friends EXCEPT ![n] =
                              IF add
                              THEN create_friend_not_unique(@, tbl_users[n],
                                       fetch_user_by_peer_id(tbl_users[n], peer).id).rows
                              ELSE @]
        /\ friend_list' = [friend_list EXCEPT ![n] = IF add THEN Append(@, peer) ELSE @]
        /\ explicit_peers' = [explicit_peers EXCEPT ![n] = IF add THEN @ \cup {peer} ELSE @]
        /\ emitted' = [emitted EXCEPT ![n] =
                          IF ~response.accepted THEN <<EvPeer("FriendRequestDenied", peer)>>
                          ELSE <<EvPeer("FriendRequestAccepted", peer)>>]
        /\ sent' = [sent EXCEPT ![n] = <<>>]
        /\ dialed' = [dialed EXCEPT ![n] = <<>>]
        /\ last' = Last(n, "FriendRequestResponse", peer)
        /\ UNCHANGED <<tbl_users, tbl_friend_requests, tbl_direct_messages,
                       inbound_friend_requests, direct_messages, buffers,
                       listen_addresses, relay_addr, connections, issued>>

\* P2PMessage::FriendRequestResponse(response) from `peer`
handle_friend_request_response(n, peer, response, faults) ==
    LET known == peer \in Range(friend_list[n])
        user == IF "fetch_user_by_peer_id" \in faults THEN [ok |-> FALSE, id |-> 0]
                ELSE fetch_user_by_peer_id(tbl_users[n], peer)
        cf == IF ~user.ok \/ "create_friend" \in faults
              THEN [ok |-> FALSE, rows |-> tbl_friends[n]]
              ELSE create_friend(tbl_friends[n], tbl_users[n], user.id)
        add == response.accepted /\ ~known /\ user.ok /\ cf.ok
    IN  /\ tbl_friends' = [tbl_friends EXCEPT ![n] = IF add THEN cf.rows ELSE @]
        /\ friend_list' = [friend_list EXCEPT ![n] = IF add THEN Append(@, peer) ELSE @]
        /\ explicit_peers' = [explicit_peers EXCEPT ![n] = IF add THEN @ \cup {peer} ELSE @]
        /\ emitted' = [emitted EXCEPT ![n] =
                          IF ~response.accepted THEN <<EvPeer("FriendRequestDenied", peer)>>
                          ELSE IF known \/ add THEN <<EvPeer("FriendRequestAccepted", peer)>>
                          ELSE IF ~user.ok THEN <<EvError("fetch_user_by_peer_id")>>
                          ELSE <<EvError("create_friend")>>]
        /\ sent' = [sent EXCEPT ![n] = <<>>]
        /\ dialed' = [dialed EXCEPT ![n] = <<>>]
        /\ last' = Last(n, "FriendRequestResponse", peer)
        /\ UNCHANGED <<tbl_users, tbl_friend_requests, tbl_direct_messages,
                       inbound_friend_requests, direct_messages, buffers,
                       listen_addresses, relay_addr, connections, issued>>

\* db::fetch_identity: the row of tbl_identity, Err when there is none
fetch_identity(n) ==
    IF tbl_identity[n] = <<>> THEN [ok |-> FALSE, keypair |-> "", peer_id |-> "", port_number |-> 0]
    ELSE [ok |-> TRUE, keypair |-> tbl_identity[n][1].keypair,
          peer_id |-> tbl_identity[n][1].peer_id,
          port_number |-> tbl_identity[n][1].port_number]

\* P2PMessage::DirectMessage(msg): the transport peer is not passed on
handle_direct_message(n, msg, faults) ==
    LET from == PeerIdFromStr(msg.from_peer_id)
        identity == IF "fetch_identity" \in faults
                    THEN [ok |-> FALSE, keypair |-> "", peer_id |-> "", port_number |-> 0]
                    ELSE fetch_identity(n)
        friend == from.ok /\ identity.ok /\ from.peer \in Range(friend_list[n])
        cdm_ok == "create_direct_message" \notin faults
        cdm == create_direct_message(tbl_direct_messages[n], msg.from_peer_id,
                                     identity.peer_id, msg.content)
        current_messages == IF from.peer \in DOMAIN direct_messages[n]
                            THEN direct_messages[n][from.peer] ELSE <<>>
    IN  /\ (friend /\ cdm_ok) => Len(tbl_direct_messages[n]) < MaxDMs
        /\ friend => Len(current_messages) < MaxDMs
        /\ tbl_direct_messages' = [tbl_direct_messages EXCEPT ![n] =
                                      IF friend /\ cdm_ok THEN cdm.rows ELSE @]
        /\ direct_messages' = [direct_messages EXCEPT ![n] =
                                  IF friend
                                  THEN MapInsert(@, from.peer, Append(current_messages, msg))
                                  ELSE @]
        /\ emitted' = [emitted EXCEPT ![n] =
                          IF ~from.ok THEN <<EvError("PeerId::from_str")>>
                          ELSE IF ~identity.ok THEN <<EvError("fetch_identity")>>
                          ELSE IF ~friend THEN <<>>
                          ELSE (IF cdm_ok THEN <<>> ELSE <<EvError("create_direct_message")>>)
                               \o <<EvDirectMessage("DirectMessageReceived", msg)>>]
        /\ sent' = [sent EXCEPT ![n] = <<>>]
        /\ dialed' = [dialed EXCEPT ![n] = <<>>]
        /\ last' = Last(n, "DirectMessage", msg.from_peer_id)
        /\ UNCHANGED <<tbl_users, tbl_friend_requests, tbl_friends, friend_list,
                       inbound_friend_requests, buffers, listen_addresses, relay_addr,
                       swarm, issued>>

\* gossipsub::Event::Message { propagation_source, message }: `decoded` is whether
\* serde_json::from_slice::<DirectMessage>(&message.data) returned Ok(msg)
handle_gossip_message(n, propagation_source, decoded, msg) ==
    /\ emitted' = [emitted EXCEPT ![n] =
                      IF propagation_source \in Range(friend_list[n]) /\ decoded
                      THEN <<EvDirectMessage("DirectMessageReceived", msg)>>
                      ELSE <<>>]
    /\ sent' = [sent EXCEPT ![n] = <<>>]
    /\ dialed' = [dialed EXCEPT ![n] = <<>>]
    /\ last' = Last(n, "Gossip", propagation_source)
    /\ UNCHANGED <<store, memory, swarm, issued>>

(***************************************************************************)
(* Commands (p2p/command_handler.rs, p2p/mod.rs handle_swarm_command).     *)
(* dial_ok is whether swarm.dial returned Ok.                              *)
(***************************************************************************)
\* SwarmCommand::SendFriendRequest { peer, address, message }
handle_send_friend_request(n, peer, address, message, dial_ok) ==
    LET request == MsgFriendRequest(n, address_to_send(n), message)
    IN  /\ outbound_friend_requests' =
              [outbound_friend_requests EXCEPT ![n] =
                  IF dial_ok THEN MapInsert(@, peer, request) ELSE MapRemove(@, peer)]
        /\ emitted' = [emitted EXCEPT ![n] = <<>>]
        /\ sent' = [sent EXCEPT ![n] = <<>>]
        /\ dialed' = [dialed EXCEPT ![n] = <<address>>]
        /\ last' = Last(n, "SendFriendRequest", peer)
        /\ UNCHANGED <<store, friend_list, inbound_friend_requests, direct_messages,
                       pending_friend_request_responses, outbound_direct_messages,
                       listen_addresses, relay_addr, swarm, issued>>

\* an accept that would go on after a failed store call
handle_accept_friend_request_unchecked(n, peer, faults, dial_ok) ==
    LET known == peer \in Range(friend_list[n])
        response == MsgFriendRequestResponse(TRUE, address_to_send(n))
    IN  /\ friend_list' = [friend_list EXCEPT ![n] = IF known THEN @ ELSE Append(@, peer)]
        /\ explicit_peers' = [explicit_peers EXCEPT ![n] = @ \cup {peer}]
        /\ pending_friend_request_responses' =
              [pending_friend_request_responses EXCEPT ![n] = MapInsert(@, peer, response)]
        /\ sent' = [sent EXCEPT ![n] = <<>>]
        /\ dialed' = [dialed EXCEPT ![n] = <<>>]
        /\ emitted' = [emitted EXCEPT ![n] = <<>>]
        /\ last' = Last(n, "AcceptFriendRequest", peer)
        /\ UNCHANGED <<store, inbound_friend_requests, direct_messages,
                       outbound_friend_requests, outbound_direct_messages,
                       listen_addresses, relay_addr, connections, issued>>

\* SwarmCommand::AcceptFriendRequest(peer)
handle_accept_friend_request(n, peer, faults, dial_ok) ==
    LET known == peer \in Range(friend_list[n])
        user == IF "fetch_user_by_peer_id" \in faults THEN [ok |-> FALSE, id |-> 0]
                ELSE fetch_user_by_peer_id(tbl_users[n], peer)
        cf == IF ~user.ok \/ "create_friend" \in faults
              THEN [ok |-> FALSE, rows |-> tbl_friends[n]]
              ELSE create_friend(tbl_friends[n], tbl_users[n], user.id)
        add == ~known /\ user.ok /\ cf.ok
        friend_request == IF "fetch_friend_request_by_from_user_id" \in faults
                          THEN [ok |-> FALSE, id |-> 0]
                          ELSE fetch_friend_request_by_from_user_id(tbl_friend_requests[n], user.id)
        requests == IF add /\ friend_request.ok /\ "delete_friend_request" \notin faults
                    THEN delete_friend_request(tbl_friend_requests[n], friend_request.id)
                    ELSE tbl_friend_requests[n]
        response == MsgFriendRequestResponse(TRUE, address_to_send(n))
        respond == known \/ add
        connected == is_connected(n, peer)
        user2 == IF "fetch_user_by_peer_id_2" \in faults THEN [ok |-> FALSE, id |-> 0]
                 ELSE fetch_user_by_peer_id(tbl_users[n], peer)
        peer_addr == IF user2.ok THEN MultiaddrParse(tbl_users[n][user2.id].multiaddr)
                     ELSE [ok |-> FALSE, addr |-> NoAddr]
        dial == respond /\ ~connected /\ user2.ok /\ peer_addr.ok
    IN  /\ tbl_friends' = [tbl_friends EXCEPT ![n] = IF add THEN cf.rows ELSE @]
        /\ tbl_friend_requests' = [tbl_friend_requests EXCEPT ![n] = requests]
        /\ friend_list' = [friend_list EXCEPT ![n] = IF add THEN Append(@, peer) ELSE @]
        /\ explicit_peers' = [explicit_peers EXCEPT ![n] = IF add THEN @ \cup {peer} ELSE @]
        /\ pending_friend_request_responses' =
              [pending_friend_request_responses EXCEPT ![n] =
                  IF ~dial THEN @
                  ELSE IF dial_ok THEN MapInsert(@, peer, response)
                  ELSE MapRemove(@, peer)]
        /\ sent' = [sent EXCEPT ![n] =
                       IF respond /\ connected THEN <<SendRequest(peer, response)>> ELSE <<>>]
        /\ dialed' = [dialed EXCEPT ![n] = IF dial THEN <<peer_addr.addr>> ELSE <<>>]
        /\ emitted' = [emitted EXCEPT ![n] =
                          IF ~respond
                          THEN (IF ~user.ok THEN <<EvError("fetch_user_by_peer_id")>>
                                ELSE <<EvError("create_friend")>>)
                          ELSE IF connected THEN <<>>
                          ELSE IF ~user2.ok THEN <<EvError("fetch_user_by_peer_id")>>
                          ELSE IF dial /\ ~dial_ok THEN <<EvError("swarm.dial")>>
                          ELSE <<>>]
        /\ last' = Last(n, "AcceptFriendRequest", peer)
        /\ UNCHANGED <<tbl_users, tbl_direct_messages, inbound_friend_requests,
                       direct_messages, outbound_friend_requests, outbound_direct_messages,
                       listen_addresses, relay_addr, connections, issued>>

\* SwarmCommand::DenyFriendRequest(peer)
handle_deny_friend_request(n, peer, faults) ==
    LET user == IF "fetch_user_by_peer_id" \in faults THEN [ok |-> FALSE, id |-> 0]
                ELSE fetch_user_by_peer_id(tbl_users[n], peer)
        friend_request == IF ~user.ok \/ "fetch_friend_request_by_from_user_id" \in faults
                          THEN [ok |-> FALSE, id |-> 0]
                          ELSE fetch_friend_request_by_from_user_id(tbl_friend_requests[n], user.id)
        response == MsgFriendRequestResponse(FALSE, "")
    IN  /\ tbl_friend_requests' =
              [tbl_friend_requests EXCEPT ![n] =
                  IF friend_request.ok /\ "delete_friend_request" \notin faults
                  THEN delete_friend_request(@, friend_request.id) ELSE @]
        /\ emitted' = [emitted EXCEPT ![n] =
                          IF user.ok THEN <<>> ELSE <<EvError("fetch_user_by_peer_id")>>]
        /\ sent' = [sent EXCEPT ![n] =
                       IF user.ok THEN <<SendRequest(peer, response)>> ELSE <<>>]
        /\ dialed' = [dialed EXCEPT ![n] = <<>>]
        /\ last' = Last(n, "DenyFriendRequest", peer)
        /\ UNCHANGED <<tbl_users, tbl_friends, tbl_direct_messages, memory, swarm, issued>>

\* mutant: the friend gate is missing
send_direct_message_gate_open(n, peer_id) == peer_id \in PeerIds

\* mutant: a refused dial leaves the message on the queue
buffer_direct_message_no_pop(queue, message, dial_ok) == Append(queue, message)

\* the gate of handle_send_direct_message: friend_list.contains(&peer_id)
send_direct_message_gate(n, peer_id) == peer_id \in Range(friend_list[n])

\* handle_send_direct_message, not connected: push the message on the peer's
\* queue, dial, and pop the queue again when the dial is refused
buffer_direct_message(queue, message, dial_ok) ==
    IF dial_ok THEN Append(queue, message) ELSE Pop(Append(queue, message))

\* SwarmCommand::SendDirectMessage { peer, address, content }
handle_send_direct_message(n, peer_id, address, content, faults, dial_ok) ==
    LET friend == send_direct_message_gate(n, peer_id)
        cdm_ok == friend /\ "create_direct_message" \notin faults
        cdm == create_direct_message(tbl_direct_messages[n], n, peer_id, content)
        fetched == cdm_ok /\ "fetch_direct_message_by_id" \notin faults
        message == MsgDirectMessage(fetch_direct_message_by_id(cdm.rows, cdm.id))
        connected == is_connected(n, peer_id)
        queue == IF peer_id \in DOMAIN outbound_direct_messages[n]
                 THEN outbound_direct_messages[n][peer_id] ELSE <<>>
    IN  /\ cdm_ok => Len(tbl_direct_messages[n]) < MaxDMs
        /\ (friend /\ ~connected) => Len(issued[n][peer_id]) < MaxIssued
        /\ tbl_direct_messages' = [tbl_direct_messages EXCEPT ![n] =
                                      IF cdm_ok THEN cdm.rows ELSE @]
        /\ outbound_direct_messages' =
              [outbound_direct_messages EXCEPT ![n] =
                  IF fetched /\ ~connected
                  THEN MapInsert(@, peer_id, buffer_direct_message(queue, message, dial_ok))
                  ELSE @]
        /\ emitted' = [emitted EXCEPT ![n] =
                          IF ~friend THEN <<>>
                          ELSE IF ~cdm_ok THEN <<EvError("create_direct_message")>>
                          ELSE IF ~fetched THEN <<EvError("fetch_direct_message_by_id")>>
                          ELSE <<EvDirectMessage("DirectMessageSent", message)>>
                               \o (IF ~connected /\ ~dial_ok
                                   THEN <<EvError("swarm.dial")>> ELSE <<>>)]
        /\ sent' = [sent EXCEPT ![n] =
                       IF fetched /\ connected THEN <<SendRequest(peer_id, message)>> ELSE <<>>]
        /\ dialed' = [dialed EXCEPT ![n] =
                         IF fetched /\ ~connected THEN <<address>> ELSE <<>>]
        /\ issued' = [issued EXCEPT ![n][peer_id] =
                         IF friend /\ ~connected
                         THEN Append(@, [id |-> IF cdm_ok THEN cdm.id ELSE 0,
                                         buffered |-> fetched /\ dial_ok])
                         ELSE @]
        /\ last' = Last(n, "SendDirectMessage", peer_id)
        /\ UNCHANGED <<tbl_users, tbl_friend_requests, tbl_friends, friend_list,
                       inbound_friend_requests, direct_messages, outbound_friend_requests,
                       pending_friend_request_responses, listen_addresses, relay_addr,
                       swarm>>

(***************************************************************************)
(* Start of the event loop (p2p/mod.rs, P2PNode::new and spawn_event_loop) *)
(***************************************************************************)
\* load_friend_list: Friend rows joined to their Peer rows; a failed
\* fetch_all_friends (an empty table is one) yields the empty list, a failed
\* fetch_user_by_id drops the row
load_friend_list(friends, users, faults) ==
    IF friends = <<>> \/ "fetch_all_friends" \in faults \/ "fetch_user_by_id" \in faults
    THEN <<>>
    ELSE [i \in DOMAIN friends |-> users[friends[i]].peer_id]

\* load_inbound_requests: FriendRequest rows keyed by the originating peer,
\* a later row replacing an earlier one of the same peer
load_inbound_requests(requests, users, faults) ==
    IF requests = <<>> \/ "fetch_all_friend_requests" \in faults
                       \/ "fetch_user_by_id_2" \in faults
    THEN EmptyMap
    ELSE [p \in {users[requests[i].from_user_id].peer_id : i \in DOMAIN requests} |->
            LET i == CHOOSE i \in DOMAIN requests :
                        /\ users[requests[i].from_user_id].peer_id = p
                        /\ \A j \in DOMAIN requests :
                              users[requests[j].from_user_id].peer_id = p => j <= i
            IN  MsgFriendRequest(p, users[requests[i].from_user_id].multiaddr,
                                 requests[i].message)]

\* the Error events of the two loads
load_errors(friends, requests, faults) ==
    (IF friends = <<>> \/ "fetch_all_friends" \in faults
     THEN <<EvError("fetch_all_friends")>> ELSE <<>>)
    \o (IF requests = <<>> \/ "fetch_all_friend_requests" \in faults
        THEN <<EvError("fetch_all_friend_requests")>> ELSE <<>>)

\* the process of node n is started again on its store: the swarm is new,
\* the buffers are empty and the two collections are loaded from the store
spawn_event_loop(n, faults) ==
    /\ friend_list' = [friend_list EXCEPT ![n] =
                          load_friend_list(tbl_friends[n], tbl_users[n], faults)]
    /\ inbound_friend_requests' =
          [inbound_friend_requests EXCEPT ![n] =
              load_inbound_requests(tbl_friend_requests[n], tbl_users[n], faults)]
    /\ direct_messages' = [direct_messages EXCEPT ![n] = EmptyMap]
    /\ outbound_friend_requests' = [outbound_friend_requests EXCEPT ![n] = EmptyMap]
    /\ pending_friend_request_responses' =
          [pending_friend_request_responses EXCEPT ![n] = EmptyMap]
    /\ outbound_direct_messages' = [outbound_direct_messages EXCEPT ![n] = EmptyMap]
    /\ connections' = [connections EXCEPT ![n] = [p \in PeerIds |-> 0]]
    /\ explicit_peers' = [explicit_peers EXCEPT ![n] = {}]
    /\ emitted' = [emitted EXCEPT ![n] =
                      load_errors(tbl_friends[n], tbl_friend_requests[n], faults)]
    /\ sent' = [sent EXCEPT ![n] = <<>>]
    /\ dialed' = [dialed EXCEPT ![n] = <<>>]
    /\ issued' = [issued EXCEPT ![n] = [p \in PeerIds |-> <<>>]]
    /\ last' = Last(n, "Start", n)
    /\ UNCHANGED <<store, listen_addresses, relay_addr>>

\* the first SwarmEvent::NewListenAddr, cached before the loop is spawned
ListenAddr(n) == "/ip4/0.0.0.0/tcp/" \o n

\* Option::None of a timestamp (Post.edited_at, no SynchRequest issued)
None == -1

\* the key pair whose public key hashes to peer identifier p
Keypair(p) == "key:" \o p

\* rand::rng().random_range(49152..65535)
Ports == {49152, 65534}

\* the stores other than tbl_identity are empty and the loop has its
\* collections loaded from them
InitEngine ==
    /\ tbl_posts = [n \in Nodes |-> <<>>]
    /\ tbl_blocked_users = [n \in Nodes |-> <<>>]
    /\ locks = [holder |-> [l \in LockNames |-> NoTask], pc |-> [t \in Tasks |-> "idle"]]
    /\ now = 0
    /\ inputs = [n \in Nodes |-> [commands |-> TRUE, events |-> TRUE]]
    /\ tbl_users = [n \in Nodes |-> <<>>]
    /\ tbl_friend_requests = [n \in Nodes |-> <<>>]
    /\ tbl_friends = [n \in Nodes |-> <<>>]
    /\ tbl_direct_messages = [n \in Nodes |-> <<>>]
    /\ friend_list = [n \in Nodes |-> load_friend_list(tbl_friends[n], tbl_users[n], {})]
    /\ inbound_friend_requests =
          [n \in Nodes |-> load_inbound_requests(tbl_friend_requests[n], tbl_users[n], {})]
    /\ direct_messages = [n \in Nodes |-> EmptyMap]
    /\ outbound_friend_requests = [n \in Nodes |-> EmptyMap]
    /\ pending_friend_request_responses = [n \in Nodes |-> EmptyMap]
    /\ outbound_direct_messages = [n \in Nodes |-> EmptyMap]
    /\ listen_addresses = [n \in Nodes |-> <<ListenAddr(n)>>]
    /\ relay_addr = [n \in Nodes |-> NoAddr]
    /\ connections = [n \in Nodes |-> [p \in PeerIds |-> 0]]
    /\ explicit_peers = [n \in Nodes |-> {}]
    /\ emitted = [n \in Nodes |->
                      load_errors(tbl_friends[n], tbl_friend_requests[n], {})]
    /\ sent = [n \in Nodes |-> <<>>]
    /\ dialed = [n \in Nodes |-> <<>>]
    /\ net = [requests |-> [c \in Nodes \X Nodes |-> <<>>],
              events |-> [n \in Nodes |-> <<>>],
              since |-> None]
    /\ last = Last("", "Start", "")
    /\ issued = [n \in Nodes |-> [p \in PeerIds |-> <<>>]]

\* NetworkConfig of a node that has not been started
NoIdentity == [keypair |-> "", peer_id |-> "", port_number |-> 0]

\* the node has been started once: NetworkConfig::load_or_create has written
\* the identity row
Init ==
    /\ tbl_identity = [n \in Nodes |->
                          <<[keypair |-> Keypair(n), peer_id |-> n, port_number |-> 49152]>>]
    /\ running = [n \in Nodes |-> TRUE]
    /\ config = [n \in Nodes |-> tbl_identity[n][1]]
    /\ InitEngine

\* the application is installed and has never been started: no identity row
InitFresh ==
    /\ tbl_identity = [n \in Nodes |-> <<>>]
    /\ running = [n \in Nodes |-> FALSE]
    /\ config = [n \in Nodes |-> NoIdentity]
    /\ InitEngine

(***************************************************************************)
(* One node against an arbitrary environment.                              *)
(***************************************************************************)
\* a DirectMessage as a remote peer can frame it
InboundDirectMessages(n) ==
    {MsgDirectMessage([id |-> 1, from_peer_id |-> f, to_peer_id |-> n, content |-> c]) :
        f \in WireSenders, c \in Contents}

ConnectionEstablished ==
    \E p \in RemotePeers(Self), a \in Addrs, faults \in Faults({"create_user"}) :
        handle_connection_established(Self, p, a, faults) /\ UNCHANGED <<net, rest>>

Restart ==
    \E faults \in Faults({"fetch_all_friends", "fetch_user_by_id",
                          "fetch_all_friend_requests", "fetch_user_by_id_2"}) :
        spawn_event_loop(Self, faults) /\ UNCHANGED <<net, rest>>

ConnectionClosed ==
    \E p \in RemotePeers(Self) : handle_connection_closed(Self, p) /\ UNCHANGED <<net, rest>>

InboundFriendRequest ==
    \E p \in RemotePeers(Self), a \in Addrs, m \in Messages,
       faults \in Faults({"fetch_user_by_peer_id", "create_friend_request"}) :
        /\ is_connected(Self, p)
        /\ handle_friend_request(Self, p, MsgFriendRequest(p, a, m), faults)
        /\ UNCHANGED <<net, rest>>

InboundFriendRequestResponse ==
    \E p \in RemotePeers(Self), accepted \in BOOLEAN,
       faults \in Faults({"fetch_user_by_peer_id", "create_friend"}) :
        /\ is_connected(Self, p)
        /\ handle_friend_request_response(Self, p,
              MsgFriendRequestResponse(accepted, IF accepted THEN "/ip4/1" ELSE ""), faults)
        /\ UNCHANGED <<net, rest>>

InboundDirectMessage ==
    \E p \in RemotePeers(Self), msg \in InboundDirectMessages(Self),
       faults \in Faults({"fetch_identity", "create_direct_message"}) :
        /\ is_connected(Self, p)
        /\ handle_direct_message(Self, msg, faults)
        /\ UNCHANGED <<net, rest>>

GossipMessage ==
    \E p \in RemotePeers(Self), decoded \in BOOLEAN, msg \in InboundDirectMessages(Self) :
        /\ is_connected(Self, p)
        /\ handle_gossip_message(Self, p, decoded, msg)
        /\ UNCHANGED <<net, rest>>

SendFriendRequest ==
    \E p \in RemotePeers(Self), a \in Addrs, m \in Messages, faults \in Faults({"swarm.dial"}) :
        handle_send_friend_request(Self, p, a, m, DialOk(faults)) /\ UNCHANGED <<net, rest>>

AcceptFriendRequest ==
    \E p \in RemotePeers(Self),
       faults \in Faults({"fetch_user_by_peer_id", "create_friend",
                          "fetch_friend_request_by_from_user_id",
                          "delete_friend_request", "fetch_user_by_peer_id_2",
                          "swarm.dial"}) :
        handle_accept_friend_request(Self, p, faults, DialOk(faults)) /\ UNCHANGED <<net, rest>>

DenyFriendRequest ==
    \E p \in RemotePeers(Self),
       faults \in Faults({"fetch_user_by_peer_id", "fetch_friend_request_by_from_user_id",
                          "delete_friend_request"}) :
        handle_deny_friend_request(Self, p, faults) /\ UNCHANGED <<net, rest>>

SendDirectMessage ==
    \E p \in RemotePeers(Self), a \in Addrs, c \in Contents,
       faults \in Faults({"create_direct_message", "fetch_direct_message_by_id",
                          "swarm.dial"}) :
        handle_send_direct_message(Self, p, a, c, faults, DialOk(faults)) /\ UNCHANGED <<net, rest>>

\* the connection lifecycle and the two ways a peer becomes a friend
Lifecycle ==
    \/ ConnectionEstablished
    \/ ConnectionClosed
    \/ InboundFriendRequestResponse
    \/ AcceptFriendRequest

\* the friend handshake: every command and event that touches the friend
\* tables, the friend set or the request buffers
Next ==
    \/ Lifecycle
    \/ InboundFriendRequest
    \/ SendFriendRequest
    \/ DenyFriendRequest

Spec == Init /\ [][Next]_vars

\* the friend tables and the two loaded collections across restarts
NextRestart ==
    \/ Lifecycle
    \/ InboundFriendRequest
    \/ DenyFriendRequest
    \/ Restart

SpecRestart == Init /\ [][NextRestart]_vars

\* SwarmCommand::GetDirectMessages { sender, peer_id }: the list is cached
\* under the peer and the cached list is the reply
handle_get_direct_messages(n, peer_id, faults) ==
    LET fetched == IF "fetch_direct_messages_with_peer" \in faults
                   THEN [ok |-> FALSE, rows |-> <<>>]
                   ELSE fetch_direct_messages_with_peer(tbl_direct_messages[n], peer_id)
        direct_messages_with_peer ==
            IF fetched.ok THEN [i \in DOMAIN fetched.rows |-> MsgDirectMessage(fetched.rows[i])]
            ELSE <<>>
    IN  /\ direct_messages' = [direct_messages EXCEPT ![n] =
                                  MapInsert(@, peer_id, direct_messages_with_peer)]
        /\ emitted' = [emitted EXCEPT ![n] =
                          IF fetched.ok THEN <<>>
                          ELSE <<EvError("fetch_direct_message_with_user")>>]
        /\ sent' = [sent EXCEPT ![n] = <<>>]
        /\ dialed' = [dialed EXCEPT ![n] = <<>>]
        /\ last' = Last(n, "GetDirectMessages", peer_id)
        /\ UNCHANGED <<store, friend_list, inbound_friend_requests, buffers,
                       listen_addresses, relay_addr, swarm, issued>>

\* the list sent on the command's reply channel: direct_messages.get(&peer_id)
peer_direct_messages(cache, peer_id) ==
    IF peer_id \in DOMAIN cache THEN cache[peer_id] ELSE <<>>

GetDirectMessages ==
    \E p \in RemotePeers(Self), faults \in Faults({"fetch_direct_messages_with_peer"}) :
        handle_get_direct_messages(Self, p, faults) /\ UNCHANGED <<net, rest>>

\* reading the conversation with a peer while direct messages arrive
NextRead ==
    \/ Lifecycle
    \/ InboundDirectMessage
    \/ GetDirectMessages

SpecRead == Init /\ [][NextRead]_vars

\* SwarmCommand::SendFriendRequest whose peer is the node's own identifier
SendFriendRequestToSelf ==
    \E a \in Addrs, m \in Messages, faults \in Faults({"swarm.dial"}) :
        handle_send_friend_request(Self, Self, a, m, DialOk(faults)) /\ UNCHANGED <<net, rest>>

\* friend requests the node sends, its own identifier among the targets
NextSelf ==
    \/ Lifecycle
    \/ SendFriendRequest
    \/ SendFriendRequestToSelf

SpecSelf == Init /\ [][NextSelf]_vars

\* the ways into the friend set at a node that sends no friend request
NextFriend ==
    \/ Lifecycle
    \/ InboundFriendRequest
    \/ DenyFriendRequest

SpecFriend == Init /\ [][NextFriend]_vars

\* AcceptFriendRequest and SendDirectMessage on a store whose calls succeed
BufferResponse ==
    \E p \in RemotePeers(Self), faults \in Faults({"swarm.dial"}) :
        handle_accept_friend_request(Self, p, faults, DialOk(faults)) /\ UNCHANGED <<net, rest>>

BufferDirectMessage ==
    \E p \in RemotePeers(Self), a \in Addrs, c \in Contents, faults \in Faults({"swarm.dial"}) :
        handle_send_direct_message(Self, p, a, c, faults, DialOk(faults)) /\ UNCHANGED <<net, rest>>

\* the three outbound buffers: what fills them and the connect that drains them
NextDrain ==
    \/ ConnectionEstablished
    \/ ConnectionClosed
    \/ BufferResponse
    \/ SendFriendRequest
    \/ BufferDirectMessage

SpecDrain == Init /\ [][NextDrain]_vars

\* outbound direct messages
NextOutbound ==
    \/ Lifecycle
    \/ SendDirectMessage

SpecOutbound == Init /\ [][NextOutbound]_vars

\* inbound direct messages, on the request/response and the gossip path
NextInbound ==
    \/ Lifecycle
    \/ InboundDirectMessage
    \/ GossipMessage

SpecInbound == Init /\ [][NextInbound]_vars

(***************************************************************************)
(* Two nodes, A and B, joined by a transport.  net.requests holds the      *)
(* request/response messages handed to send_request and not yet handled by *)
(* the receiver; net.events holds the connection events the swarm of each  *)
(* node has still to yield.  A sends friend requests, B accepts them.      *)
(***************************************************************************)
Other(n) == CHOOSE o \in Nodes : o # n

\* the messages of `calls` addressed to peer p
RequestsTo(calls, p) ==
    LET to_p == SelectSeq(calls, LAMBDA r : r.to = p)
    IN  [i \in DOMAIN to_p |-> to_p[i].msg]

\* node n has run one iteration: its send_request calls are put in flight
Route(n) ==
    /\ net' = [net EXCEPT !.requests[<<n, Other(n)>>] =
                              @ \o RequestsTo(sent'[n], Other(n))]
    /\ Len(net'.requests[<<n, Other(n)>>]) <= MaxInFlight

\* a transport connection between the two nodes comes up
Link ==
    /\ \A n \in Nodes : net.events[n] = <<>> /\ ~is_connected(n, Other(n))
    /\ net' = [net EXCEPT !.events = [n \in Nodes |-> <<"ConnectionEstablished">>]]
    /\ UNCHANGED <<store, memory, swarm, outputs, last, issued, rest>>

\* the connection goes down; what was in flight on it is lost
Unlink ==
    /\ \A n \in Nodes : net.events[n] = <<>> /\ is_connected(n, Other(n))
    /\ net' = [net EXCEPT !.requests = [c \in Nodes \X Nodes |-> <<>>],
                          !.events = [n \in Nodes |-> <<"ConnectionClosed">>]]
    /\ UNCHANGED <<store, memory, swarm, outputs, last, issued, rest>>

PairConnectionEstablished ==
    \E n \in Nodes, a \in Addrs, faults \in Faults({"create_user"}) :
        /\ net.events[n] # <<>> /\ Head(net.events[n]) = "ConnectionEstablished"
        /\ handle_connection_established(n, Other(n), a, faults)
        /\ net' = [net EXCEPT !.events[n] = Tail(@),
                              !.requests[<<n, Other(n)>>] =
                                  @ \o RequestsTo(sent'[n], Other(n))]
        /\ Len(net'.requests[<<n, Other(n)>>]) <= MaxInFlight
        /\ UNCHANGED rest

PairConnectionClosed ==
    \E n \in Nodes :
        /\ net.events[n] # <<>> /\ Head(net.events[n]) = "ConnectionClosed"
        /\ handle_connection_closed(n, Other(n))
        /\ net' = [net EXCEPT !.events[n] = Tail(@)]
        /\ UNCHANGED rest

\* the receiver handles the oldest request of its peer
DeliverFriendRequest ==
    \E n \in Nodes, faults \in Faults({"fetch_user_by_peer_id", "create_friend_request"}) :
        LET c == <<Other(n), n>>
        IN  /\ is_connected(n, Other(n))
            /\ net.requests[c] # <<>>
            /\ Head(net.requests[c]).kind = "FriendRequest"
            /\ handle_friend_request(n, Other(n), Head(net.requests[c]), faults)
            /\ net' = [net EXCEPT !.requests[c] = Tail(@)]
            /\ UNCHANGED rest

DeliverFriendRequestResponse ==
    \E n \in Nodes, faults \in Faults({"fetch_user_by_peer_id", "create_friend"}) :
        LET c == <<Other(n), n>>
        IN  /\ is_connected(n, Other(n))
            /\ net.requests[c] # <<>>
            /\ Head(net.requests[c]).kind = "FriendRequestResponse"
            /\ handle_friend_request_response(n, Other(n), Head(net.requests[c]), faults)
            /\ net' = [net EXCEPT !.requests[c] = Tail(@)]
            /\ UNCHANGED rest

PairSendFriendRequest ==
    \E a \in Addrs, m \in Messages, faults \in Faults({"swarm.dial"}) :
        /\ handle_send_friend_request("A", "B", a, m, DialOk(faults))
        /\ Route("A")
        /\ UNCHANGED rest

PairAcceptFriendRequest ==
    \E faults \in Faults({"fetch_user_by_peer_id", "create_friend",
                          "fetch_friend_request_by_from_user_id",
                          "delete_friend_request", "fetch_user_by_peer_id_2",
                          "swarm.dial"}) :
        /\ handle_accept_friend_request("B", "A", faults, DialOk(faults))
        /\ Route("B")
        /\ UNCHANGED rest

\* a request handed to send_request while the peer is not connected waits for
\* the connection the behaviour dials
PairDenyFriendRequest ==
    \E faults \in Faults({"fetch_user_by_peer_id", "fetch_friend_request_by_from_user_id",
                          "delete_friend_request"}) :
        /\ handle_deny_friend_request("B", "A", faults)
        /\ Route("B")
        /\ UNCHANGED rest

NextPair ==
    \/ Link
    \/ Unlink
    \/ PairConnectionEstablished
    \/ PairConnectionClosed
    \/ DeliverFriendRequest
    \/ DeliverFriendRequestResponse
    \/ PairSendFriendRequest
    \/ PairAcceptFriendRequest
    \/ PairDenyFriendRequest

SpecPair == Init /\ [][NextPair]_vars

(***************************************************************************)
(* Post synchronisation between the two nodes (db/mod.rs, event_handler.rs *)
(* handle_synch_request and handle_synch_response).  The event loop has no *)
(* arm that calls the two handlers and no command that issues a            *)
(* SynchRequest; the actions below apply the handlers to the messages as   *)
(* a loop that dispatched them would.                                      *)
(***************************************************************************)
\* a value as SQLite stores it in a column: an integer or a text
SqlInteger(i) == [type |-> "integer", value |-> i]
SqlText(t) == [type |-> "text", value |-> t]

\* INSERT INTO tbl_posts: FOREIGN KEY (author_user_id) REFERENCES tbl_users(id)
create_post(posts, users, author, content, created_at) ==
    IF author.type = "integer" /\ author.value \in DOMAIN users
    THEN [ok |-> TRUE,
          rows |-> Append(posts, [author_user_id |-> author, content |-> content,
                                  created_at |-> created_at, edited_at |-> None])]
    ELSE [ok |-> FALSE, rows |-> posts]

\* UPDATE tbl_posts SET content, edited_at WHERE id
update_post(posts, id, content, edited_at) ==
    [i \in DOMAIN posts |->
        IF i = id THEN [posts[i] EXCEPT !.content = content, !.edited_at = edited_at]
        ELSE posts[i]]

\* fetch_all_posts: Err on an empty table; row.get(1) reads the INTEGER column
\* author_user_id into Post.author_peer_id: String, which is Err unless the
\* stored value is a text
fetch_all_posts(posts) ==
    IF posts = <<>> \/ \E i \in DOMAIN posts : posts[i].author_user_id.type # "text"
    THEN [ok |-> FALSE, posts |-> <<>>]
    ELSE [ok |-> TRUE,
          posts |-> [i \in DOMAIN posts |->
                        [id |-> i, author_peer_id |-> posts[i].author_user_id.value,
                         content |-> posts[i].content, created_at |-> posts[i].created_at,
                         edited_at |-> posts[i].edited_at]]]

MsgSynchRequest(since, sender) == [kind |-> "SynchRequest", since |-> since, sender |-> sender]

MsgSynchResponse(created_posts, edited_posts, sender) ==
    [kind |-> "SynchResponse", created_posts |-> created_posts,
     edited_posts |-> edited_posts, sender |-> sender]

\* EventHandler::handle_synch_request: the response it hands to send_response
synch_response(n, since, faults) ==
    LET fetched == IF "fetch_all_posts" \in faults THEN [ok |-> FALSE, posts |-> <<>>]
                   ELSE fetch_all_posts(tbl_posts[n])
        created_posts == SelectSeq(fetched.posts, LAMBDA q : q.created_at >= since)
        edited_posts == SelectSeq(fetched.posts,
                                  LAMBDA q : q.edited_at # None /\ q.edited_at >= since)
    IN  [ok |-> fetched.ok, msg |-> MsgSynchResponse(created_posts, edited_posts, n)]

handle_synch_request(n, since, sender, faults) ==
    /\ emitted' = [emitted EXCEPT ![n] =
                      IF synch_response(n, since, faults).ok THEN <<>>
                      ELSE <<EvError("fetch_all_posts")>>]
    /\ sent' = [sent EXCEPT ![n] = <<>>]
    /\ dialed' = [dialed EXCEPT ![n] = <<>>]
    /\ last' = Last(n, "SynchRequest", sender)
    /\ UNCHANGED <<store, memory, swarm, issued, rest>>

\* the posts after create_post for each of created_posts, a failed insert skipped
RECURSIVE create_posts(_, _, _, _)
create_posts(posts, users, created_posts, created_at) ==
    IF created_posts = <<>> THEN [rows |-> posts, failed |-> 0]
    ELSE LET cp == create_post(posts, users, SqlText(Head(created_posts).author_peer_id),
                               Head(created_posts).content, created_at)
             more == create_posts(cp.rows, users, Tail(created_posts), created_at)
         IN  [rows |-> more.rows, failed |-> more.failed + (IF cp.ok THEN 0 ELSE 1)]

RECURSIVE update_posts(_, _, _)
update_posts(posts, edited_posts, edited_at) ==
    IF edited_posts = <<>> THEN posts
    ELSE update_posts(update_post(posts, Head(edited_posts).id,
                                  Head(edited_posts).content, edited_at),
                      Tail(edited_posts), edited_at)

\* EventHandler::handle_synch_response
handle_synch_response(n, created_posts, edited_posts, sender) ==
    LET created == create_posts(tbl_posts[n], tbl_users[n], created_posts, now)
    IN  /\ tbl_posts' = [tbl_posts EXCEPT ![n] = update_posts(created.rows, edited_posts, now)]
        /\ emitted' = [emitted EXCEPT ![n] =
                          [i \in 1..created.failed |-> EvError("create_post")]
                          \o <<[type |-> "PostSynch"]>>]
        /\ sent' = [sent EXCEPT ![n] = <<>>]
        /\ dialed' = [dialed EXCEPT ![n] = <<>>]
        /\ last' = Last(n, "SynchResponse", sender)
        /\ UNCHANGED <<store, memory, swarm, issued, tbl_identity, now, inputs, running, config, tbl_blocked_users, locks>>

\* db::create_post called on the node's store with a local user id
CreatePost ==
    \E n \in Nodes, author \in 1..MaxUsers, c \in Contents :
        LET cp == create_post(tbl_posts[n], tbl_users[n], SqlInteger(author), c, now)
        IN  /\ net.since = None
            /\ cp.ok
            /\ Len(tbl_posts[n]) < MaxPosts
            /\ tbl_posts' = [tbl_posts EXCEPT ![n] = cp.rows]
            /\ UNCHANGED <<store, memory, swarm, outputs, net, last, issued,
                           tbl_identity, now, inputs, running, config, tbl_blocked_users, locks>>

Tick ==
    /\ now < MaxTime
    /\ now' = now + 1
    /\ UNCHANGED <<store, memory, swarm, outputs, net, last, issued,
                   tbl_identity, tbl_posts, inputs, running, config, tbl_blocked_users, locks>>

\* B asks A for the posts since `since`
IssueSynchRequest ==
    \E since \in 0..now :
        /\ net.since = None
        /\ is_connected("B", "A")
        /\ net' = [net EXCEPT !.since = since,
                              !.requests[<<"B", "A">>] = Append(@, MsgSynchRequest(since, "B"))]
        /\ UNCHANGED <<store, memory, swarm, outputs, last, issued, rest>>

DeliverSynchRequest ==
    \E faults \in Faults({"fetch_all_posts"}) :
        LET c == <<"B", "A">>
        IN  /\ is_connected("A", "B")
            /\ net.requests[c] # <<>>
            /\ Head(net.requests[c]).kind = "SynchRequest"
            /\ handle_synch_request("A", Head(net.requests[c]).since,
                                    Head(net.requests[c]).sender, faults)
            /\ net' = [net EXCEPT !.requests[c] = Tail(@),
                                  !.requests[<<"A", "B">>] =
                                      Append(@, synch_response("A", Head(net.requests[c]).since,
                                                               faults).msg)]

DeliverSynchResponse ==
    LET c == <<"A", "B">>
    IN  /\ net.requests[c] # <<>>
        /\ Head(net.requests[c]).kind = "SynchResponse"
        /\ handle_synch_response("B", Head(net.requests[c]).created_posts,
                                 Head(net.requests[c]).edited_posts,
                                 Head(net.requests[c]).sender)
        /\ net' = [net EXCEPT !.requests[c] = Tail(@)]

NextSynch ==
    \/ Link
    \/ PairConnectionEstablished
    \/ CreatePost
    \/ Tick
    \/ IssueSynchRequest
    \/ DeliverSynchRequest
    \/ DeliverSynchResponse

SpecSynch == Init /\ [][NextSynch]_vars

(***************************************************************************)
(* The identity row and the start of the node's process (p2p/config.rs,    *)
(* db/mod.rs tbl_identity, P2PNode::new).                                  *)
(***************************************************************************)
\* tbl_identity without CHECK (id = 1): every INSERT adds a row
create_identity_no_check(rows, identity) ==
    [ok |-> TRUE, rows |-> Append(rows, identity)]

\* INSERT INTO tbl_identity: id INTEGER PRIMARY KEY CHECK (id = 1), so the
\* insert of a second row fails
create_identity(rows, identity) ==
    IF rows = <<>> THEN [ok |-> TRUE, rows |-> <<identity>>]
    ELSE [ok |-> FALSE, rows |-> rows]

\* Keypair::generate_ed25519(): the peer identifier of the first key pair a
\* node generates is the node's name; a pair generated later is another one
Generated(n) == IF tbl_identity[n] = <<>> THEN n ELSE n \o "'"

\* NetworkConfig::load_or_create: the row when fetch_identity is Ok, else a
\* generated identity written with create_identity, whose Err is returned
load_or_create(n, port, faults) ==
    LET generated == [keypair |-> Keypair(Generated(n)), peer_id |-> Generated(n),
                      port_number |-> port]
        created == IF "create_identity" \in faults
                   THEN [ok |-> FALSE, rows |-> tbl_identity[n]]
                   ELSE create_identity(tbl_identity[n], generated)
    IN  IF fetch_identity(n).ok /\ "fetch_identity" \notin faults
        THEN [ok |-> TRUE, rows |-> tbl_identity[n],
              config |-> [keypair |-> fetch_identity(n).keypair,
                          peer_id |-> fetch_identity(n).peer_id,
                          port_number |-> fetch_identity(n).port_number]]
        ELSE [ok |-> created.ok, rows |-> created.rows, config |-> generated]

\* start_p2p: P2PNode::new, then spawn_event_loop; nothing is started when
\* load_or_create returns Err
Start ==
    \E port \in Ports,
       faults \in Faults({"fetch_identity", "create_identity", "fetch_all_friends",
                          "fetch_user_by_id", "fetch_all_friend_requests",
                          "fetch_user_by_id_2"}) :
        LET loaded == load_or_create(Self, port, faults)
        IN  /\ ~running[Self]
            /\ tbl_identity' = [tbl_identity EXCEPT ![Self] = loaded.rows]
            /\ IF loaded.ok
               THEN /\ config' = [config EXCEPT ![Self] = loaded.config]
                    /\ running' = [running EXCEPT ![Self] = TRUE]
                    /\ spawn_event_loop(Self, faults)
                    /\ UNCHANGED <<net, tbl_posts, now, inputs, tbl_blocked_users, locks>>
               ELSE /\ last' = Last(Self, "StartFailed", Self)
                    /\ UNCHANGED <<store, memory, swarm, outputs, net, issued,
                                   tbl_posts, now, inputs, running, config, tbl_blocked_users, locks>>

\* the application is closed: the process is gone, and with it the event
\* loop task, the swarm and everything the node held in memory
Stop ==
    /\ running[Self]
    /\ running' = [running EXCEPT ![Self] = FALSE]
    /\ config' = [config EXCEPT ![Self] = NoIdentity]
    /\ friend_list' = [friend_list EXCEPT ![Self] = <<>>]
    /\ inbound_friend_requests' = [inbound_friend_requests EXCEPT ![Self] = EmptyMap]
    /\ direct_messages' = [direct_messages EXCEPT ![Self] = EmptyMap]
    /\ outbound_friend_requests' = [outbound_friend_requests EXCEPT ![Self] = EmptyMap]
    /\ pending_friend_request_responses' =
          [pending_friend_request_responses EXCEPT ![Self] = EmptyMap]
    /\ outbound_direct_messages' = [outbound_direct_messages EXCEPT ![Self] = EmptyMap]
    /\ connections' = [connections EXCEPT ![Self] = [p \in PeerIds |-> 0]]
    /\ explicit_peers' = [explicit_peers EXCEPT ![Self] = {}]
    /\ emitted' = [emitted EXCEPT ![Self] = <<>>]
    /\ sent' = [sent EXCEPT ![Self] = <<>>]
    /\ dialed' = [dialed EXCEPT ![Self] = <<>>]
    /\ issued' = [issued EXCEPT ![Self] = [p \in PeerIds |-> <<>>]]
    /\ last' = Last(Self, "Stop", Self)
    /\ UNCHANGED <<store, listen_addresses, relay_addr, net,
                   tbl_identity, tbl_posts, now, inputs, tbl_blocked_users, locks>>

NextIdentity ==
    \/ Start
    \/ Stop
    \/ running[Self] /\ ConnectionEstablished
    \/ running[Self] /\ AcceptFriendRequest
    \/ running[Self] /\ SendFriendRequest

SpecIdentity == InitFresh /\ [][NextIdentity]_vars

(***************************************************************************)
(* The single-file engine (p2p.rs): its event loop has the handlers inline *)
(* in the spawned task, so a `return` in an arm ends the task.             *)
(***************************************************************************)
\* p2p.rs, arm P2PMessage::DirectMessage(msg) of the request/response event:
\* `return` for a "system" sender and for a transport peer that is no friend
legacy_direct_message(n, peer, msg) ==
    LET returns == msg.from_peer_id = "system" \/ peer \notin Range(friend_list[n])
    IN  /\ running' = [running EXCEPT ![n] = ~returns]
        /\ emitted' = [emitted EXCEPT ![n] =
                          IF returns THEN <<>>
                          ELSE <<EvDirectMessage("MessageReceived", msg)>>]
        /\ sent' = [sent EXCEPT ![n] = <<>>]
        /\ dialed' = [dialed EXCEPT ![n] = <<>>]
        /\ last' = Last(n, "DirectMessage", peer)
        /\ UNCHANGED <<store, memory, swarm, issued, net,
                       tbl_identity, tbl_posts, now, inputs, config, tbl_blocked_users, locks>>

LegacyDirectMessage ==
    \E p \in RemotePeers(Self), msg \in InboundDirectMessages(Self) :
        /\ running[Self]
        /\ is_connected(Self, p)
        /\ legacy_direct_message(Self, p, msg)

\* inbound direct messages at a node whose loop dispatches them to the
\* handler of either engine
NextLegacy ==
    \/ running[Self] /\ ConnectionEstablished
    \/ running[Self] /\ ConnectionClosed
    \/ running[Self] /\ AcceptFriendRequest
    \/ running[Self] /\ InboundDirectMessage
    \/ LegacyDirectMessage

SpecLegacy == Init /\ [][NextLegacy]_vars

(***************************************************************************)
(* The two input streams of the loop (p2p/mod.rs spawn_event_loop): the    *)
(* command receiver yields None once every sender is dropped; the swarm    *)
(* stream may stay silent.  `loop { tokio::select! { .. } }` has no break  *)
(* and no else branch: with the command branch disabled it waits on        *)
(* swarm.select_next_some().                                               *)
(***************************************************************************)
\* every P2PNode handle (the UnboundedSender<SwarmCommand>) is dropped
CloseCommands ==
    /\ running[Self]
    /\ inputs[Self].commands
    /\ inputs' = [inputs EXCEPT ![Self].commands = FALSE]
    /\ UNCHANGED <<store, memory, swarm, outputs, net, last, issued,
                   tbl_identity, tbl_posts, now, running, config, tbl_blocked_users, locks>>

\* the swarm produces no further event
CloseEvents ==
    /\ running[Self]
    /\ inputs[Self].events
    /\ inputs' = [inputs EXCEPT ![Self].events = FALSE]
    /\ UNCHANGED <<store, memory, swarm, outputs, net, last, issued,
                   tbl_identity, tbl_posts, now, running, config, tbl_blocked_users, locks>>

\* one iteration of the loop: the select takes an event or a command from a
\* stream that is open
NextShutdown ==
    \/ CloseCommands
    \/ CloseEvents
    \/ running[Self] /\ inputs[Self].events /\ ConnectionEstablished
    \/ running[Self] /\ inputs[Self].events /\ ConnectionClosed
    \/ running[Self] /\ inputs[Self].commands /\ SendFriendRequest
    \/ running[Self] /\ inputs[Self].commands /\ AcceptFriendRequest

\* the tokio runtime polls the task whenever one of its streams is ready
SpecShutdown == Init /\ [][NextShutdown]_vars /\ WF_vars(NextShutdown)

(***************************************************************************)
(* The bulk reads of the store (db/mod.rs): each returns Err when          *)
(* query.exists is false, else the rows converted to the model type.       *)
(***************************************************************************)
\* INSERT INTO tbl_blocked_users: FOREIGN KEY (user_id), UNIQUE(user_id)
create_blocked_user(blocked, users, user_id) ==
    IF user_id \in DOMAIN users /\ user_id \notin Range(blocked)
    THEN [ok |-> TRUE, rows |-> Append(blocked, user_id)]
    ELSE [ok |-> FALSE, rows |-> blocked]

fetch_all_users(users) ==
    IF users = <<>> THEN [ok |-> FALSE, rows |-> <<>>]
    ELSE [ok |-> TRUE,
          rows |-> [i \in DOMAIN users |->
                       [id |-> i, peer_id |-> users[i].peer_id,
                        multiaddr |-> users[i].multiaddr]]]

fetch_all_friend_requests(requests) ==
    IF requests = <<>> THEN [ok |-> FALSE, rows |-> <<>>]
    ELSE [ok |-> TRUE,
          rows |-> [i \in DOMAIN requests |->
                       [id |-> i, from_user_id |-> requests[i].from_user_id,
                        message |-> requests[i].message]]]

fetch_all_friends(friends) ==
    IF friends = <<>> THEN [ok |-> FALSE, rows |-> <<>>]
    ELSE [ok |-> TRUE, rows |-> [i \in DOMAIN friends |-> [id |-> i, user_id |-> friends[i]]]]

fetch_all_direct_messages(dms) ==
    IF dms = <<>> THEN [ok |-> FALSE, rows |-> <<>>]
    ELSE [ok |-> TRUE, rows |-> [i \in DOMAIN dms |-> fetch_direct_message_by_id(dms, i)]]

fetch_blocked_users(blocked) ==
    IF blocked = <<>> THEN [ok |-> FALSE, rows |-> <<>>]
    ELSE [ok |-> TRUE, rows |-> [i \in DOMAIN blocked |-> [id |-> i, user_id |-> blocked[i]]]]

\* db::create_blocked_user called on the node's store with a local user id
BlockUser ==
    \E user_id \in 1..MaxUsers :
        LET cbu == create_blocked_user(tbl_blocked_users[Self], tbl_users[Self], user_id)
        IN  /\ cbu.ok
            /\ tbl_blocked_users' = [tbl_blocked_users EXCEPT ![Self] = cbu.rows]
            /\ UNCHANGED <<store, memory, swarm, outputs, net, last, issued,
                           tbl_identity, tbl_posts, now, inputs, running, config, locks>>

\* the db::create_* functions called on the node's store, as the engine's
\* handlers and the store's tests call them
CreateUser ==
    \E p \in RemotePeers(Self), a \in Addrs :
        /\ Len(tbl_users[Self]) < MaxUsers
        /\ tbl_users' = [tbl_users EXCEPT ![Self] = create_user(@, p, a)]
        /\ UNCHANGED <<tbl_friend_requests, tbl_friends, tbl_direct_messages,
                       memory, swarm, outputs, net, last, issued, rest>>

CreateFriendRequest ==
    \E from_user_id \in 1..MaxUsers, m \in Messages :
        LET cfr == create_friend_request(tbl_friend_requests[Self], tbl_users[Self],
                                         from_user_id, m)
        IN  /\ cfr.ok
            /\ Len(tbl_friend_requests[Self]) < MaxRequests
            /\ tbl_friend_requests' = [tbl_friend_requests EXCEPT ![Self] = cfr.rows]
            /\ UNCHANGED <<tbl_users, tbl_friends, tbl_direct_messages,
                           memory, swarm, outputs, net, last, issued, rest>>

CreateFriend ==
    \E user_id \in 1..MaxUsers :
        LET cf == create_friend(tbl_friends[Self], tbl_users[Self], user_id)
        IN  /\ cf.ok
            /\ tbl_friends' = [tbl_friends EXCEPT ![Self] = cf.rows]
            /\ UNCHANGED <<tbl_users, tbl_friend_requests, tbl_direct_messages,
                           memory, swarm, outputs, net, last, issued, rest>>

CreateDirectMessage ==
    \E p \in RemotePeers(Self), c \in Contents :
        /\ Len(tbl_direct_messages[Self]) < MaxDMs
        /\ tbl_direct_messages' =
              [tbl_direct_messages EXCEPT ![Self] = create_direct_message(@, Self, p, c).rows]
        /\ UNCHANGED <<tbl_users, tbl_friend_requests, tbl_friends,
                       memory, swarm, outputs, net, last, issued, rest>>

NextBulk ==
    \/ CreateUser
    \/ CreateFriendRequest
    \/ CreateFriend
    \/ CreateDirectMessage
    \/ CreatePost
    \/ BlockUser

SpecBulk == Init /\ [][NextBulk]_vars

(***************************************************************************)
(* Referential integrity of the store (db/mod.rs init_db: PRAGMA            *)
(* foreign_keys = ON, FOREIGN KEY ... REFERENCES tbl_users(id)).  No        *)
(* handler of the engine deletes a Peer row; db::delete_user is issued on   *)
(* the store directly.  Tables are sequences indexed by rowid, so the       *)
(* delete is issued for the newest row, whose rowid the next insert reuses. *)
(***************************************************************************)
\* the rowids of tbl_users that a row of another table references
referenced_users(n) ==
    Range(tbl_friends[n])
    \cup {tbl_friend_requests[n][i].from_user_id : i \in DOMAIN tbl_friend_requests[n]}
    \cup Range(tbl_blocked_users[n])
    \cup {tbl_posts[n][i].author_user_id.value : i \in DOMAIN tbl_posts[n]}

\* a delete with foreign keys not enforced
delete_user_unchecked(users, referenced, id) ==
    IF id \in DOMAIN users /\ id = Len(users)
    THEN [ok |-> TRUE, rows |-> SubSeq(users, 1, id - 1)]
    ELSE [ok |-> TRUE, rows |-> users]

\* DELETE FROM tbl_users WHERE id=?1; a referenced row fails the foreign key
delete_user(users, referenced, id) ==
    IF id \in referenced THEN [ok |-> FALSE, rows |-> users]
    ELSE IF id \in DOMAIN users /\ id = Len(users)
    THEN [ok |-> TRUE, rows |-> SubSeq(users, 1, id - 1)]
    ELSE [ok |-> TRUE, rows |-> users]

DeleteUser ==
    LET id == Len(tbl_users[Self])
        du == delete_user(tbl_users[Self], referenced_users(Self), id)
    IN  /\ id > 0
        /\ tbl_users' = [tbl_users EXCEPT ![Self] = du.rows]
        /\ last' = Last(Self, "delete_user", tbl_users[Self][id].peer_id)
        /\ UNCHANGED <<tbl_friend_requests, tbl_friends, tbl_direct_messages,
                       memory, swarm, outputs, net, issued, rest>>

NextIntegrity ==
    \/ ConnectionEstablished
    \/ ConnectionClosed
    \/ InboundFriendRequest
    \/ InboundFriendRequestResponse
    \/ AcceptFriendRequest
    \/ DenyFriendRequest
    \/ DeleteUser

SpecIntegrity == Init /\ [][NextIntegrity]_vars

(***************************************************************************)
(* Blocked users (db/mod.rs tbl_blocked_users, is_user_blocked).  No        *)
(* command of the engine blocks a user: db::create_blocked_user is issued   *)
(* on the store directly while the engine handles inbound messages.         *)
(***************************************************************************)
\* SELECT ... FROM tbl_blocked_users WHERE user_id=?1, query.exists
is_user_blocked(blocked, user_id) == user_id \in Range(blocked)

NextBlocked ==
    \/ ConnectionEstablished
    \/ InboundFriendRequestResponse
    \/ BlockUser
    \/ InboundDirectMessage

SpecBlocked == Init /\ [][NextBlocked]_vars

(***************************************************************************)
(* The advertised address (p2p/mod.rs ConnectToRelay and NewListenAddr,     *)
(* command_handler.rs address_to_send).                                     *)
(***************************************************************************)
\* the relays the application may be told to connect to
Relays == {"/ip4/9/tcp/4001", "/dns4/relay/tcp/4001"}

\* a further address the swarm starts listening on
LaterListenAddr(n) == "/ip4/10.0.0.1/tcp/" \o n

\* SwarmCommand::ConnectToRelay(address): the result of the dial is dropped
handle_connect_to_relay(n, address) ==
    /\ relay_addr' = [relay_addr EXCEPT ![n] = address]
    /\ dialed' = [dialed EXCEPT ![n] = <<address>>]
    /\ emitted' = [emitted EXCEPT ![n] = <<>>]
    /\ sent' = [sent EXCEPT ![n] = <<>>]
    /\ last' = Last(n, "ConnectToRelay", address)
    /\ UNCHANGED <<store, friend_list, inbound_friend_requests, direct_messages,
                   buffers, listen_addresses, swarm, issued>>

\* SwarmEvent::NewListenAddr { address }
handle_new_listen_addr(n, address) ==
    /\ Len(listen_addresses[n]) < MaxListen
    /\ listen_addresses' = [listen_addresses EXCEPT ![n] = Append(@, address)]
    /\ dialed' = [dialed EXCEPT ![n] = <<>>]
    /\ emitted' = [emitted EXCEPT ![n] = <<>>]
    /\ sent' = [sent EXCEPT ![n] = <<>>]
    /\ last' = Last(n, "NewListenAddr", address)
    /\ UNCHANGED <<store, friend_list, inbound_friend_requests, direct_messages,
                   buffers, relay_addr, swarm, issued>>

ConnectToRelay ==
    \E a \in Relays : handle_connect_to_relay(Self, a) /\ UNCHANGED <<net, rest>>

NewListenAddr ==
    handle_new_listen_addr(Self, LaterListenAddr(Self)) /\ UNCHANGED <<net, rest>>

NextRelay ==
    \/ ConnectToRelay
    \/ NewListenAddr
    \/ ConnectionEstablished
    \/ SendFriendRequest
    \/ BufferResponse

SpecRelay == Init /\ [][NextRelay]_vars

(***************************************************************************)
(* A SynchResponse applied by one node, the response being whatever a       *)
(* remote peer frames (event_handler.rs handle_synch_response).             *)
(***************************************************************************)
\* the contents a remote peer writes
RemoteContents == {"hello", "edited"}

\* a Post as a remote peer lists it in a SynchResponse
RemotePosts ==
    {[id |-> i, author_peer_id |-> a, content |-> c, created_at |-> 0, edited_at |-> e] :
        i \in 1..MaxPosts, a \in {"B"}, c \in RemoteContents, e \in {None, 0}}

\* the SynchResponse messages of at most one created and one edited post
SynchResponses ==
    {MsgSynchResponse(created_posts, edited_posts, "B") :
        created_posts \in {<<>>} \cup {<<q>> : q \in RemotePosts},
        edited_posts \in {<<>>} \cup {<<q>> : q \in {r \in RemotePosts : r.edited_at # None}}}

InboundSynchResponse ==
    \E r \in SynchResponses :
        /\ is_connected(Self, "B")
        /\ handle_synch_response(Self, r.created_posts, r.edited_posts, r.sender)
        /\ UNCHANGED net

NextApply ==
    \/ ConnectionEstablished
    \/ CreatePost
    \/ Tick
    \/ InboundSynchResponse

SpecApply == Init /\ [][NextApply]_vars

(***************************************************************************)
(* The two mutexes (p2p/node.rs get_listen_addresses, command_handler.rs    *)
(* address_to_send, p2p/mod.rs NewListenAddr and ConnectToRelay).  A task   *)
(* is at a label; `lock().await` is granted when no task holds the mutex,   *)
(* and a guard is dropped at the end of its statement or, when bound by     *)
(* `let`, at the end of the function.                                       *)
(***************************************************************************)
\* a handler that would lock relay_addr before listen_addresses
LockOrder_reversed == <<"relay_addr", "listen_addresses">>

\* handle_send_friend_request and handle_accept_friend_request:
\* listen_addrs.lock().await, then relay_addr.lock().await
LockOrder == <<"listen_addresses", "relay_addr">>

\* Mutex::lock().await of task t
Lock(t, l, from, to) ==
    /\ locks.pc[t] = from
    /\ locks.holder[l] = NoTask
    /\ locks' = [locks EXCEPT !.holder[l] = t, !.pc[t] = to]

\* task t drops its guards of the mutexes ls
Unlock(t, ls, from, to) ==
    /\ locks.pc[t] = from
    /\ \A l \in ls : locks.holder[l] = t
    /\ locks' = [holder |-> [l \in LockNames |->
                                IF l \in ls THEN NoTask ELSE locks.holder[l]],
                 pc |-> [locks.pc EXCEPT ![t] = to]]

\* task t begins an operation
Begin(t, to) ==
    /\ locks.pc[t] = "idle"
    /\ locks' = [locks EXCEPT !.pc[t] = to]

\* the two guards of a friend-request or accept handler, held to its end
address_to_send_guards(t) ==
    \/ Begin(t, "lock_first")
    \/ Lock(t, LockOrder[1], "lock_first", "lock_second")
    \/ Lock(t, LockOrder[2], "lock_second", "handler_body")
    \/ Unlock(t, LockNames, "handler_body", "idle")

\* SwarmEvent::NewListenAddr: listen_addresses.lock().await.push(address)
new_listen_addr_guard(t) ==
    \/ Begin(t, "push_lock")
    \/ Lock(t, "listen_addresses", "push_lock", "push")
    \/ Unlock(t, {"listen_addresses"}, "push", "idle")

\* SwarmCommand::ConnectToRelay: *relay_addr.lock().await = Some(address)
connect_to_relay_guard(t) ==
    \/ Begin(t, "store_lock")
    \/ Lock(t, "relay_addr", "store_lock", "store")
    \/ Unlock(t, {"relay_addr"}, "store", "idle")

\* P2PNode::get_listen_addresses: the guard of listen_addresses is dropped
\* after clone(), the guard of relay_address lives for the `if let`
get_listen_addresses(t) ==
    \/ Begin(t, "clone_lock")
    \/ Lock(t, "listen_addresses", "clone_lock", "clone")
    \/ Unlock(t, {"listen_addresses"}, "clone", "relay_lock")
    \/ Lock(t, "relay_addr", "relay_lock", "circuit")
    \/ Unlock(t, {"relay_addr"}, "circuit", "idle")

\* one step of task t
TaskStep(t) ==
    /\ IF t = "loop"
       THEN \/ address_to_send_guards(t)
            \/ new_listen_addr_guard(t)
            \/ connect_to_relay_guard(t)
       ELSE get_listen_addresses(t)
    /\ UNCHANGED <<store, memory, swarm, outputs, net, last, issued, tbl_identity,
                   tbl_posts, now, inputs, running, config, tbl_blocked_users>>

NextLocks == \E t \in Tasks : TaskStep(t)

\* every task is scheduled again: the tokio runtime polls a task whose lock
\* is free, and code that holds a guard runs to the end of its scope
SpecLocks == Init /\ [][NextLocks]_vars /\ \A t \in Tasks : WF_vars(TaskStep(t))

(***************************************************************************)
(* Properties.                                                             *)
(***************************************************************************)
\* the friend set of node n
FriendSet(n) == Range(friend_list[n])

\* the events of one type the last iteration of node n emitted
Emitted(n, type) == {i \in DOMAIN emitted[n] : emitted[n][i].type = type}

\* C1: every DirectMessageReceived(m) the node emits, on the request/response
\* path or on the gossip path, names in m.from_peer_id a peer that is in the
\* friend set when the event is emitted.
C1_MessageAuthorization ==
    \A i \in Emitted(Self, "DirectMessageReceived") :
        emitted[Self][i].msg.from_peer_id \in FriendSet(Self)

\* the DirectMessages among the send_request calls `calls`, for peer p
DirectMessagesTo(calls, p) ==
    SelectSeq(calls, LAMBDA r : r.to = p /\ r.msg.kind = "DirectMessage")

\* the row ids of a sequence of send_request calls
MessageIds(calls) == [i \in DOMAIN calls |-> calls[i].msg.id]

\* the commands of `history` that persisted their row and whose dial was not refused
Buffered(history) == SelectSeq(history, LAMBDA c : c.buffered)

\* C2 as stated: when P connects, the DirectMessages handed to the channel for
\* P are the messages of all the SendDirectMessage commands issued for the
\* friend P while it was not connected, in the order issued.
C2_BufferDrainAllIssued ==
    [][\A p \in RemotePeers(Self) :
          (last'.kind = "ConnectionEstablished" /\ last'.peer = p) =>
              MessageIds(DirectMessagesTo(sent'[Self], p))
                  = [i \in DOMAIN issued[Self][p] |-> issued[Self][p][i].id]]_vars

\* C2 amended: when P connects, the DirectMessages handed to the channel for P
\* are the messages of those SendDirectMessage commands, issued for the friend
\* P while it was not connected, that persisted their row and whose dial was
\* not refused, each once and in the order issued.
C2_BufferDrain ==
    [][\A p \in RemotePeers(Self) :
          (last'.kind = "ConnectionEstablished" /\ last'.peer = p) =>
              MessageIds(DirectMessagesTo(sent'[Self], p))
                  = [i \in DOMAIN Buffered(issued[Self][p]) |->
                        Buffered(issued[Self][p])[i].id]]_vars

\* C2 witness: a connect that drains two buffered messages
C2_Witness ==
    /\ last.kind = "ConnectionEstablished"
    /\ Len(DirectMessagesTo(sent[Self], last.peer)) = 2

\* C7: SendDirectMessage to a peer outside the friend set inserts no
\* DirectMessage row, emits no event, leaves the three outbound buffers as they
\* are, dials nothing and sends nothing.
C7_NonFriendSendIsNoOp ==
    [][(last'.kind = "SendDirectMessage" /\ last'.peer \notin FriendSet(Self)) =>
          /\ tbl_direct_messages' = tbl_direct_messages
          /\ buffers' = buffers
          /\ emitted'[Self] = <<>>
          /\ dialed'[Self] = <<>>
          /\ sent'[Self] = <<>>]_vars

\* C7 witness: a SendDirectMessage to a non-friend, handled while the node has
\* a friend and a stored message
C7_Witness ==
    /\ last.kind = "SendDirectMessage"
    /\ last.peer \notin FriendSet(Self)
    /\ FriendSet(Self) # {}
    /\ tbl_direct_messages[Self] # <<>>

\* the peers of the Friend rows, through their Peer rows
FriendRowPeers(n) == {tbl_users[n][tbl_friends[n][i]].peer_id : i \in DOMAIN tbl_friends[n]}

\* the peers of the FriendRequest rows, through their Peer rows
RequestRowPeers(n) ==
    {tbl_users[n][tbl_friend_requests[n][i].from_user_id].peer_id :
        i \in DOMAIN tbl_friend_requests[n]}

\* C3: at the start of every iteration the in-memory friend set is the set of
\* peers obtained by joining the Friend rows to the Peer rows.
C3_StoreMemoryAgreement == FriendSet(Self) = FriendRowPeers(Self)

\* C4: however often AcceptFriendRequest(P) is issued, there is at most one
\* Friend row for P and at most one entry for P in the friend list.
C4_AcceptIdempotent ==
    \A p \in PeerIds :
        /\ Cardinality({i \in DOMAIN tbl_friends[Self] :
                           tbl_users[Self][tbl_friends[Self][i]].peer_id = p}) <= 1
        /\ Cardinality({i \in DOMAIN friend_list[Self] : friend_list[Self][i] = p}) <= 1

\* C4 witness: AcceptFriendRequest(P) was handled for a P that already was a
\* friend with a Friend row, and the acceptance was sent once more
C4_Witness ==
    /\ last.kind = "AcceptFriendRequest"
    /\ last.friend
    /\ last.peer \in FriendRowPeers(Self)
    /\ sent[Self] # <<>>

\* C6: at the start of every iteration the keys of the in-memory
\* inbound-request map are the peers that have a FriendRequest row.
C6_InboundMapIsProjection ==
    DOMAIN inbound_friend_requests[Self] = RequestRowPeers(Self)

\* C8: an inbound FriendRequest from a peer already in the friend set changes
\* no table and no in-memory collection and emits no event.
C8_RequestFromFriendIsNoOp ==
    [][(last'.kind = "FriendRequest" /\ last'.peer \in FriendSet(Self)) =>
          /\ store' = store
          /\ memory' = memory
          /\ emitted'[Self] = <<>>]_vars

\* C9: DenyFriendRequest(P) with no FriendRequest row from P changes no state,
\* emits no event and sends nothing.
C9_DenyWithoutRequestIsNoOp ==
    [][(last'.kind = "DenyFriendRequest" /\ last'.peer \notin RequestRowPeers(Self)) =>
          /\ store' = store
          /\ memory' = memory
          /\ emitted'[Self] = <<>>
          /\ sent'[Self] = <<>>]_vars

\* C10: once AcceptFriendRequest(P) has added P to the friend set, no
\* FriendRequest row from P is left.
C10_NoRequestRowAfterAccept ==
    (/\ last.kind = "AcceptFriendRequest"
     /\ ~last.friend
     /\ last.peer \in FriendSet(Self)) => last.peer \notin RequestRowPeers(Self)

\* node n holds p as a friend: a Friend row and a friend-list entry
IsFriend(n, p) == p \in FriendRowPeers(n) /\ p \in FriendSet(n)

\* nothing is left to process: no request in flight, no connection event
\* pending, nothing buffered for a connection to come
Quiescent ==
    /\ \A c \in Nodes \X Nodes : net.requests[c] = <<>>
    /\ \A n \in Nodes :
          /\ net.events[n] = <<>>
          /\ outbound_friend_requests[n] = EmptyMap
          /\ pending_friend_request_responses[n] = EmptyMap
          /\ outbound_direct_messages[n] = EmptyMap

\* C5: when B has handled AcceptFriendRequest(A) and nothing is left to
\* process, B holds A as a friend exactly if A holds B as a friend.
C5_FriendSymmetryAtRest ==
    (Quiescent /\ last.kind = "AcceptFriendRequest" /\ last.node = "B")
        => (IsFriend("B", "A") <=> IsFriend("A", "B"))

\* the peers of the FriendRequest rows `requests`, through the Peer rows `users`
RequestPeers(requests, users) ==
    {users[requests[i].from_user_id].peer_id : i \in DOMAIN requests}

\* the friend list and the Friend table of both nodes
Friendships == <<friend_list, tbl_friends>>

\* C11: when B handles DenyFriendRequest(A) while a FriendRequest row from A
\* is pending, no row from A is left at B and no friendship changes; when A
\* handles the denying response it emits FriendRequestDenied{peer: B} and no
\* friendship changes.
C11_DenyClearsRequest ==
    [][/\ (/\ last'.kind = "DenyFriendRequest" /\ last'.node = "B"
           /\ "A" \in RequestRowPeers("B"))
          => (/\ "A" \notin RequestPeers(tbl_friend_requests'["B"], tbl_users'["B"])
              /\ Friendships' = Friendships)
       /\ (/\ last'.kind = "FriendRequestResponse" /\ last'.node = "A"
           /\ net.requests[<<"B", "A">>] # <<>>
           /\ ~Head(net.requests[<<"B", "A">>]).accepted)
          => (/\ emitted'["A"] = <<EvPeer("FriendRequestDenied", "B")>>
              /\ Friendships' = Friendships)]_vars

\* the peer that wrote row q of node n's tbl_posts
PostAuthor(n, q) ==
    IF q.author_user_id.type = "integer"
    THEN tbl_users[n][q.author_user_id.value].peer_id
    ELSE q.author_user_id.value

\* C12: once B has applied A's SynchResponse to its SynchRequest{since: t},
\* every post of A with created_at >= t has a post of B with the same author
\* and content and created_at >= t.
C12_PostSyncRoundTrip ==
    (last.kind = "SynchResponse" /\ last.node = "B") =>
        \A i \in DOMAIN tbl_posts["A"] :
            tbl_posts["A"][i].created_at >= net.since =>
                \E j \in DOMAIN tbl_posts["B"] :
                    /\ PostAuthor("B", tbl_posts["B"][j]) = PostAuthor("A", tbl_posts["A"][i])
                    /\ tbl_posts["B"][j].content = tbl_posts["A"][i].content
                    /\ tbl_posts["B"][j].created_at >= net.since

\* the three outbound buffers of node n hold nothing
BuffersEmpty(n) ==
    /\ outbound_friend_requests[n] = EmptyMap
    /\ pending_friend_request_responses[n] = EmptyMap
    /\ outbound_direct_messages[n] = EmptyMap

\* C13: a start on a store that holds an identity row loads the key pair,
\* peer identifier and port of that row and writes no identity row, leaves
\* the friend set equal to the peers that have a Friend row, and leaves the
\* three outbound buffers empty.
C13_RestartRestoresState ==
    [][(/\ last'.kind = "Start" /\ last'.node = Self
        /\ tbl_identity[Self] # <<>>)
       => (/\ tbl_identity' = tbl_identity
           /\ config'[Self] = tbl_identity[Self][1]
           /\ FriendSet(Self)' = FriendRowPeers(Self)'
           /\ BuffersEmpty(Self)')]_vars

\* C14: the store never holds more than one identity row, and a start that
\* fails on a store holding a row (create_identity on an existing row) leaves
\* the row as it was.
C14_SingleIdentityRow ==
    [][/\ \A n \in Nodes : Len(tbl_identity'[n]) <= 1
       /\ (last'.kind = "StartFailed" /\ tbl_identity[Self] # <<>>)
          => tbl_identity' = tbl_identity]_vars

C14_Witness ==
    /\ last.kind = "StartFailed"
    /\ tbl_identity[Self] = <<[keypair |-> Keypair(Self), peer_id |-> Self,
                               port_number |-> 49152]>>

\* C15: a SendFriendRequest command whose peer is the node's own identifier
\* writes no Friend row, leaves no outbound friend request buffered for that
\* identifier, and emits an Error event with context "self".
C15_SelfFriendRequestRejected ==
    [][(/\ last'.kind = "SendFriendRequest" /\ last'.node = Self
        /\ last'.peer = Self)
       => (/\ tbl_friends' = tbl_friends
           /\ Self \notin DOMAIN outbound_friend_requests'[Self]
           /\ EvError("self") \in Range(emitted'[Self]))]_vars

\* C16: handling an inbound direct message (from a non-friend, labelled
\* "system", with an unparsable sender, or with a failing store operation)
\* leaves the event loop running, so that it handles the commands and events
\* that follow.
C16_LoopSurvivesInbound ==
    [][(last'.kind = "DirectMessage" /\ last'.node = Self) => running'[Self]]_vars

\* the peers of the rows of node n's tbl_direct_messages
DirectMessagePeers(n) ==
    {tbl_direct_messages[n][i].from_peer_id : i \in DOMAIN tbl_direct_messages[n]}
    \cup {tbl_direct_messages[n][i].to_peer_id : i \in DOMAIN tbl_direct_messages[n]}

\* C18: GetDirectMessages for a peer with no stored direct message replies
\* with the empty list and emits no Error event.
C18_EmptyConversationIsNoError ==
    [][(/\ last'.kind = "GetDirectMessages" /\ last'.node = Self
        /\ last'.peer \notin DirectMessagePeers(Self))
       => (/\ peer_direct_messages(direct_messages'[Self], last'.peer) = <<>>
           /\ \A i \in DOMAIN emitted'[Self] : emitted'[Self][i].type # "Error")]_vars

\* both input streams of node n have closed
InputsClosed(n) == ~inputs[n].commands /\ ~inputs[n].events

\* C17: once the command queue and the network-event stream have both
\* closed, the event loop eventually terminates, having emitted a warning
\* event if operations were still buffered.
C17_LoopTerminatesOnClose ==
    InputsClosed(Self) ~>
        (/\ ~running[Self]
         /\ (~BuffersEmpty(Self) => emitted[Self] # <<>>))

\* a bulk read of `table` that returned `result`: Err on the empty table,
\* else one converted row per stored row, in rowid order
BulkRead(table, result) ==
    IF table = <<>> THEN ~result.ok
    ELSE /\ result.ok
         /\ DOMAIN result.rows = DOMAIN table
         /\ \A i \in DOMAIN table : result.rows[i].id = i

\* the list a bulk read of tbl_posts returned, as fetch_all_* results are
PostsRead(posts) == [ok |-> fetch_all_posts(posts).ok, rows |-> fetch_all_posts(posts).posts]

\* C19: fetch_all_friends, fetch_all_friend_requests, fetch_all_users,
\* fetch_all_direct_messages, fetch_all_posts and fetch_blocked_users return
\* an error on a table without rows and every row of a table that has rows.
C19_BulkReads ==
    \A n \in Nodes :
        /\ BulkRead(tbl_friends[n], fetch_all_friends(tbl_friends[n]))
        /\ BulkRead(tbl_friend_requests[n], fetch_all_friend_requests(tbl_friend_requests[n]))
        /\ BulkRead(tbl_users[n], fetch_all_users(tbl_users[n]))
        /\ BulkRead(tbl_direct_messages[n], fetch_all_direct_messages(tbl_direct_messages[n]))
        /\ BulkRead(tbl_blocked_users[n], fetch_blocked_users(tbl_blocked_users[n]))
        /\ BulkRead(tbl_posts[n], PostsRead(tbl_posts[n]))

\* an inbound friend request from p is pending at node n: its row is stored
\* or the loaded map holds it
PendingInbound(n, p) ==
    p \in RequestRowPeers(n) \/ p \in DOMAIN inbound_friend_requests[n]

\* node n has an outbound friend request to p outstanding; under SpecFriend
\* the node issues none, so only a buffered one could be
OutstandingOutbound(n, p) == p \in DOMAIN outbound_friend_requests[n]

\* C20: a peer enters the friend set only when AcceptFriendRequest for it is
\* handled while an inbound request from it is pending, or when an accepting
\* FriendRequestResponse from it arrives while an outbound request to it is
\* outstanding.
C20_FriendOnlyByHandshake ==
    [][\A p \in PeerIds :
          (p \notin FriendSet(Self) /\ p \in FriendSet(Self)')
          => \/ (/\ last'.kind = "AcceptFriendRequest" /\ last'.peer = p
                 /\ PendingInbound(Self, p))
             \/ (/\ last'.kind = "FriendRequestResponse" /\ last'.peer = p
                 /\ OutstandingOutbound(Self, p))]_vars

\* what the three buffers of node n hold for peer p, as the requests that a
\* drain hands to the channel: the friend request, the response, the messages
BufferedFor(n, p) ==
    (IF p \in DOMAIN outbound_friend_requests[n]
     THEN <<SendRequest(p, outbound_friend_requests[n][p])>> ELSE <<>>)
    \o (IF p \in DOMAIN pending_friend_request_responses[n]
        THEN <<SendRequest(p, pending_friend_request_responses[n][p])>> ELSE <<>>)
    \o (IF p \in DOMAIN outbound_direct_messages[n]
        THEN [i \in DOMAIN outbound_direct_messages[n][p] |->
                 SendRequest(p, outbound_direct_messages[n][p][i])]
        ELSE <<>>)

\* the entries of buffer map m for the peers other than p
OtherEntries(m, p) == [q \in DOMAIN m \ {p} |-> m[q]]

\* C21: on ConnectionEstablished{P} the node emits PeerConnected(P) first and
\* sends the buffered FriendRequest, the buffered FriendRequestResponse and
\* the buffered DirectMessages of P in that order; afterwards no buffer holds
\* an entry for P and the entries of the other peers are as before.
C21_ConnectDrainsInOrder ==
    [][(last'.kind = "ConnectionEstablished" /\ last'.node = Self) =>
          \A p \in RemotePeers(Self) :
              last'.peer = p =>
                  /\ emitted'[Self] # <<>>
                  /\ emitted'[Self][1] = EvPeer("PeerConnected", p)
                  /\ sent'[Self] = BufferedFor(Self, p)
                  /\ p \notin DOMAIN outbound_friend_requests'[Self]
                  /\ p \notin DOMAIN pending_friend_request_responses'[Self]
                  /\ p \notin DOMAIN outbound_direct_messages'[Self]
                  /\ outbound_friend_requests'[Self]
                        = OtherEntries(outbound_friend_requests[Self], p)
                  /\ pending_friend_request_responses'[Self]
                        = OtherEntries(pending_friend_request_responses[Self], p)
                  /\ outbound_direct_messages'[Self]
                        = OtherEntries(outbound_direct_messages[Self], p)]_vars

\* C21 witness: a connect that sent a friend request, a response and a
\* direct message, while another peer's request stays buffered
C21_Witness ==
    /\ last.kind = "ConnectionEstablished"
    /\ Len(sent[Self]) = 3
    /\ sent[Self][1].msg.kind = "FriendRequest"
    /\ sent[Self][2].msg.kind = "FriendRequestResponse"
    /\ sent[Self][3].msg.kind = "DirectMessage"
    /\ outbound_friend_requests[Self] # EmptyMap

\* C22: SendFriendRequest for a peer that is connected sends the
\* FriendRequest while the command is handled and leaves no entry for the
\* peer in the outbound-request buffer.
C22_ConnectedRequestSentAtOnce ==
    [][\A p \in RemotePeers(Self) :
          (/\ last'.kind = "SendFriendRequest" /\ last'.node = Self /\ last'.peer = p
           /\ is_connected(Self, p))
          => (/\ \E i \in DOMAIN sent'[Self] :
                    /\ sent'[Self][i].to = p
                    /\ sent'[Self][i].msg.kind = "FriendRequest"
              /\ p \notin DOMAIN outbound_friend_requests'[Self])]_vars

\* an Error event is among the events node n emitted in the last iteration
EmittedError(n) == \E i \in DOMAIN emitted[n] : emitted[n][i].type = "Error"

\* C23: when the dial issued by SendFriendRequest{peer} fails, the
\* outbound-request buffer holds no entry for the peer afterwards and an
\* Error event is emitted.
C23_FailedDialOfRequestReported ==
    [][\A p \in RemotePeers(Self), a \in Addrs, m \in Messages :
          handle_send_friend_request(Self, p, a, m, FALSE)
          => (/\ p \notin DOMAIN outbound_friend_requests'[Self]
              /\ EmittedError(Self)')]_vars

\* the queue of direct messages node n has buffered for peer p
QueueFor(n, p) ==
    IF p \in DOMAIN outbound_direct_messages[n] THEN outbound_direct_messages[n][p] ELSE <<>>

\* C24: when the dial issued by SendDirectMessage for a peer that is not
\* connected fails, the message just appended is taken off the peer's queue
\* again and the messages queued earlier keep their order; when the dial
\* issued by AcceptFriendRequest fails, no pending response for the peer
\* remains; in both cases an Error event with context "swarm.dial" is emitted.
C24_FailedDialUndoesBuffering ==
    [][\A p \in RemotePeers(Self) :
          /\ (\E a \in Addrs, c \in Contents :
                 /\ handle_send_direct_message(Self, p, a, c, {}, FALSE)
                 /\ dialed'[Self] # <<>>)
             => (/\ QueueFor(Self, p)' = QueueFor(Self, p)
                 /\ EvError("swarm.dial") \in Range(emitted'[Self]))
          /\ (/\ handle_accept_friend_request(Self, p, {}, FALSE)
              /\ dialed'[Self] # <<>>)
             => (/\ p \notin DOMAIN pending_friend_request_responses'[Self]
                 /\ EvError("swarm.dial") \in Range(emitted'[Self]))]_vars

\* C24 witness: a SendDirectMessage whose dial failed, handled while an
\* earlier message for the peer is queued
C24_Witness ==
    /\ last.kind = "SendDirectMessage"
    /\ dialed[Self] # <<>>
    /\ EvError("swarm.dial") \in Range(emitted[Self])
    /\ QueueFor(Self, last.peer) # <<>>

\* the accepting responses among the requests a step sent to peer p
ResponsesTo(out, p) ==
    {i \in DOMAIN out : out[i].to = p /\ out[i].msg.kind = "FriendRequestResponse"}

\* node n holds a Peer row for p, so that an accept of p finds its address
HasPeerRow(n, p) == fetch_user_by_peer_id(tbl_users[n], p).ok

C26_CloseKeepsBuffers ==
    [][(last'.kind = "ConnectionClosed" /\ last'.node = Self)
          => (/\ emitted'[Self] = <<EvPeer("PeerDisconnected", last'.peer)>>
              /\ sent'[Self] = <<>>
              /\ UNCHANGED <<store, friend_list, buffers>>
              /\ \A p \in RemotePeers(Self) : BufferedFor(Self, p)' = BufferedFor(Self, p))]_vars

\* C26 witness: the connection to a peer closed while a request for that
\* peer is buffered
C26_Witness ==
    /\ last.kind = "ConnectionClosed"
    /\ last.node = Self
    /\ BufferedFor(Self, last.peer) # <<>>

\* C27: an accepting FriendRequestResponse from a peer that is already in
\* the friend set leaves the friend set and the Friend table as they were.
C27_ResponseFromFriendAddsNothing ==
    [][\A p \in RemotePeers(Self) :
          (/\ last'.kind = "FriendRequestResponse" /\ last'.node = Self /\ last'.peer = p
           /\ p \in Range(friend_list[Self])
           /\ emitted'[Self] = <<EvPeer("FriendRequestAccepted", p)>>)
          => (/\ friend_list'[Self] = friend_list[Self]
              /\ tbl_friends'[Self] = tbl_friends[Self])]_vars

\* C27 witness: an accepting response from a peer that was a friend already
\* has been handled
C27_Witness ==
    /\ last.kind = "FriendRequestResponse"
    /\ last.node = Self
    /\ last.friend
    /\ emitted[Self] = <<EvPeer("FriendRequestAccepted", last.peer)>>
    /\ last.peer \in FriendRowPeers(Self)

\* the FriendRequest rows of node n that come from peer p
RequestRowsFrom(n, p) ==
    {i \in DOMAIN tbl_friend_requests[n] :
        tbl_users[n][tbl_friend_requests[n][i].from_user_id].peer_id = p}

\* C28: in every reachable state the FriendRequest table holds at most one
\* row per originating peer (a second request from a peer with a pending row
\* adds no row).
C28_OneRequestRowPerPeer ==
    \A p \in PeerIds : Cardinality(RequestRowsFrom(Self, p)) <= 1

\* the Peer rows of node n for peer p
PeerRowsOf(n, p) == {i \in DOMAIN tbl_users[n] : tbl_users[n][i].peer_id = p}

\* C29: after any sequence of ConnectionEstablished events the Peer table
\* holds at most one row per peer identifier (a connection from a peer with
\* a row updates that row).
C29_OnePeerRowPerPeer ==
    \A p \in PeerIds : Cardinality(PeerRowsOf(Self, p)) <= 1

\* C30: every Friend row and every FriendRequest row references an existing
\* Peer row: no handler inserts such a row for a peer without a Peer row,
\* and a delete of a referenced Peer row is refused.
C30_RowsReferencePeerRows ==
    /\ \A i \in DOMAIN tbl_friends[Self] : tbl_friends[Self][i] \in DOMAIN tbl_users[Self]
    /\ \A i \in DOMAIN tbl_friend_requests[Self] :
          tbl_friend_requests[Self][i].from_user_id \in DOMAIN tbl_users[Self]

\* C30 witness: a delete was issued for the only Peer row of a peer that a
\* Friend row references, and the row is still there
C30_Witness ==
    /\ last.kind = "delete_user"
    /\ Cardinality(PeerRowsOf(Self, last.peer)) = 1
    /\ tbl_friends[Self] # <<>>
    /\ \A i \in DOMAIN tbl_friends[Self] : tbl_friends[Self][i] \in PeerRowsOf(Self, last.peer)

\* node n holds a BlockedUser row for a Peer row of peer p
IsBlocked(n, p) ==
    \E i \in DOMAIN tbl_users[n] :
        tbl_users[n][i].peer_id = p /\ is_user_blocked(tbl_blocked_users[n], i)

\* C31: an inbound DirectMessage whose sender has a BlockedUser row inserts no
\* DirectMessage row, leaves the thread cache unchanged and emits no
\* DirectMessageReceived, also when the sender is in the friend set.
C31_BlockedSenderRejected ==
    [][\A p \in RemotePeers(Self) :
          (/\ last'.kind = "DirectMessage" /\ last'.node = Self /\ last'.peer = p
           /\ IsBlocked(Self, p))
          => (/\ tbl_direct_messages'[Self] = tbl_direct_messages[Self]
              /\ direct_messages'[Self] = direct_messages[Self]
              /\ \A i \in DOMAIN emitted'[Self] :
                    emitted'[Self][i].type # "DirectMessageReceived")]_vars

\* what node n is to advertise: the circuit address through the recorded
\* relay, else the first cached listen address
Advertised(n) ==
    IF relay_addr[n] \in Relays
    THEN relay_addr[n] \o "/p2p-circuit/p2p/" \o n
    ELSE Head(listen_addresses[n])

\* C32: ConnectToRelay(addr) records addr, which then stays recorded until
\* the next ConnectToRelay; every FriendRequest that SendFriendRequest
\* constructs and every accepting response that AcceptFriendRequest
\* constructs (sent or buffered) carries addr/p2p-circuit/p2p/<own peer id>
\* when a relay is recorded and the first cached listen address otherwise.
C32_AdvertisesRelayCircuit ==
    [][/\ \A a \in Relays :
             (last'.kind = "ConnectToRelay" /\ last'.peer = a) => relay_addr'[Self] = a
       /\ last'.kind # "ConnectToRelay" => relay_addr'[Self] = relay_addr[Self]
       /\ \A p \in RemotePeers(Self) :
             /\ (/\ last'.kind = "SendFriendRequest" /\ last'.peer = p
                 /\ p \in DOMAIN outbound_friend_requests'[Self])
                => outbound_friend_requests'[Self][p].from_multiaddr = Advertised(Self)
             /\ (last'.kind = "AcceptFriendRequest" /\ last'.peer = p)
                => (/\ \A i \in DOMAIN sent'[Self] :
                          sent'[Self][i].msg.multiaddr = Advertised(Self)
                    /\ (p \in DOMAIN pending_friend_request_responses'[Self]
                        /\ dialed'[Self] # <<>>)
                       => pending_friend_request_responses'[Self][p].multiaddr
                             = Advertised(Self))]_vars

\* C32 witness: with a relay recorded and a second listen address cached, a
\* friend request is buffered and an accepting response was just sent
C32_Witness ==
    /\ relay_addr[Self] \in Relays
    /\ Len(listen_addresses[Self]) = 2
    /\ last.kind = "AcceptFriendRequest"
    /\ sent[Self] # <<>>
    /\ outbound_friend_requests[Self] # EmptyMap

\* the rowids of the posts a SynchResponse lists
PostIds(posts) == {posts[k].id : k \in DOMAIN posts}

\* C33: the SynchRequest handler answers SynchRequest{since} with
\* created_posts being exactly the stored posts with created_at >= since and
\* edited_posts exactly the stored posts with an edit timestamp >= since,
\* and leaves the store as it was.
C33_SynchRequestSelectsSince ==
    [][(/\ last'.kind = "SynchRequest" /\ last'.node = "A"
        /\ net.requests[<<"B", "A">>] # <<>>)
       => LET since == Head(net.requests[<<"B", "A">>]).since
              out == net'.requests[<<"A", "B">>]
              response == out[Len(out)]
              rows == tbl_posts["A"]
          IN  /\ out # <<>>
              /\ response.kind = "SynchResponse"
              /\ PostIds(response.created_posts)
                    = {i \in DOMAIN rows : rows[i].created_at >= since}
              /\ PostIds(response.edited_posts)
                    = {i \in DOMAIN rows : rows[i].edited_at # None /\ rows[i].edited_at >= since}
              /\ Len(response.created_posts) = Cardinality(PostIds(response.created_posts))
              /\ Len(response.edited_posts) = Cardinality(PostIds(response.edited_posts))
              /\ tbl_posts' = tbl_posts
              /\ store' = store]_vars

\* the Post table of node n after a SynchResponse r is applied to `posts`
Applied(n, posts, r) ==
    update_posts(create_posts(posts, tbl_users[n], r.created_posts, now).rows,
                 r.edited_posts, now)

\* C34: applying a SynchResponse inserts only created posts that the node
\* does not hold yet, changes a stored post only when the response lists an
\* edit of that same post (same rowid, same author), and applied a second
\* time changes nothing further.
C34_SynchResponseAppliedOnce ==
    [][\A r \in SynchResponses :
          handle_synch_response(Self, r.created_posts, r.edited_posts, r.sender)
          => LET old == tbl_posts[Self]
                 new == tbl_posts'[Self]
             IN  /\ \A j \in DOMAIN new \ DOMAIN old :
                       /\ \E k \in DOMAIN r.created_posts :
                             r.created_posts[k].content = new[j].content
                       /\ ~\E i \in DOMAIN old :
                             /\ old[i].content = new[j].content
                             /\ old[i].author_user_id = new[j].author_user_id
                 /\ \A i \in DOMAIN old :
                       new[i] # old[i]
                       => \E k \in DOMAIN r.edited_posts :
                             /\ r.edited_posts[k].id = i
                             /\ r.edited_posts[k].author_peer_id = PostAuthor(Self, old[i])
                 /\ Applied(Self, new, r) = new]_vars

\* C35: a SynchRequest is served only for a requester in the friend set: the
\* handling of a SynchRequest from a peer that is not a friend hands no
\* SynchResponse to the channel, and so never one that lists posts.
C35_SynchServedToFriendsOnly ==
    [][(/\ last'.kind = "SynchRequest" /\ last'.node = "A"
        /\ last'.peer \notin Range(friend_list["A"]))
       => LET out == net'.requests[<<"A", last'.peer>>]
          IN  /\ \A k \in DOMAIN out :
                    out[k].kind = "SynchResponse"
                    => out[k].created_posts = <<>> /\ out[k].edited_posts = <<>>
              /\ out = net.requests[<<"A", last'.peer>>]]_vars

\* C36: on the request/response path a DirectMessageReceived(m) is emitted
\* only in a step that inserted a DirectMessage row with m's sender and
\* content; when the insert fails the thread cache is unchanged and the only
\* event is the Error.
C36_ReceivedOnlyAfterInsert ==
    [][(last'.kind = "DirectMessage" /\ last'.node = Self)
       => /\ \A i \in DOMAIN emitted'[Self] :
                emitted'[Self][i].type = "DirectMessageReceived"
                => LET m == emitted'[Self][i].msg
                       rows == tbl_direct_messages'[Self]
                   IN  /\ Len(rows) = Len(tbl_direct_messages[Self]) + 1
                       /\ rows[Len(rows)].from_peer_id = m.from_peer_id
                       /\ rows[Len(rows)].content = m.content
          /\ EvError("create_direct_message") \in Range(emitted'[Self])
             => (/\ direct_messages'[Self] = direct_messages[Self]
                 /\ emitted'[Self] = <<EvError("create_direct_message")>>)]_vars

\* C37: when AcceptFriendRequest(P), for a P that is not yet a friend, finds
\* no Peer row for P (none stored, or the lookup fails) or the Friend insert
\* fails, exactly one Error event is emitted, the friend set, the Friend and
\* FriendRequest tables and the pending-response map are unchanged, and no
\* response is sent and no dial issued.
C37_FailedAcceptChangesNothing ==
    [][\A p \in RemotePeers(Self),
          faults \in {{}, {"fetch_user_by_peer_id"}, {"create_friend"}} :
          (/\ handle_accept_friend_request(Self, p, faults, TRUE)
           /\ p \notin Range(friend_list[Self])
           /\ (faults # {} \/ ~fetch_user_by_peer_id(tbl_users[Self], p).ok))
          => (/\ Len(emitted'[Self]) = 1
              /\ emitted'[Self][1].type = "Error"
              /\ friend_list'[Self] = friend_list[Self]
              /\ tbl_friends'[Self] = tbl_friends[Self]
              /\ tbl_friend_requests'[Self] = tbl_friend_requests[Self]
              /\ pending_friend_request_responses'[Self]
                    = pending_friend_request_responses[Self]
              /\ sent'[Self] = <<>>
              /\ dialed'[Self] = <<>>)]_vars

\* C37 witness: an accept of a peer with a pending FriendRequest row failed
\* at the Friend insert and the row is still there
C37_Witness ==
    /\ last.kind = "AcceptFriendRequest"
    /\ last.node = Self
    /\ emitted[Self] = <<EvError("create_friend")>>
    /\ last.peer \in RequestRowPeers(Self)
    /\ last.peer \notin Range(friend_list[Self])

\* the rowids of the direct messages in the outbound queues of node n
QueuedIds(queues) ==
    UNION {{queues[p][i].id : i \in DOMAIN queues[p]} : p \in DOMAIN queues}

\* the positions of the direct messages among the requests a step sent
DirectMessagesIn(out) == {i \in DOMAIN out : out[i].msg.kind = "DirectMessage"}

\* C38: no direct message is handed to the request/response channel twice.
\* In every step the messages handed over are pairwise different, each is
\* the message just created or one that was queued, none of them is in a
\* queue afterwards, and nothing enters a queue but the message just created.
C38_DirectMessageHandedOnce ==
    [][LET out == sent'[Self]
           handed == {out[i].msg.id : i \in DirectMessagesIn(out)}
           queued == QueuedIds(outbound_direct_messages[Self])
           fresh == Len(tbl_direct_messages[Self]) + 1
       IN  /\ \A i, j \in DirectMessagesIn(out) : out[i].msg.id = out[j].msg.id => i = j
           /\ handed \subseteq queued \cup {fresh}
           /\ handed \cap QueuedIds(outbound_direct_messages'[Self]) = {}
           /\ QueuedIds(outbound_direct_messages'[Self]) \subseteq queued \cup {fresh}
           /\ fresh \in handed \cup QueuedIds(outbound_direct_messages'[Self])
                 => Len(tbl_direct_messages'[Self]) = fresh]_vars

\* C38 witness: a connection was established that sent a queued direct
\* message, after one message was sent at once and one was queued
C38_Witness ==
    /\ last.kind = "ConnectionEstablished"
    /\ DirectMessagesIn(sent[Self]) # {}
    /\ Len(tbl_direct_messages[Self]) = MaxDMs
    /\ Cardinality(DirectMessagesIn(sent[Self])) = 1

\* C39: at the start of every iteration, for every peer the swarm reports as
\* connected the outbound direct-message queue holds no message and the
\* pending-response map holds no entry.
C39_ConnectedPeerHasNothingBuffered ==
    \A p \in RemotePeers(Self) :
        is_connected(Self, p)
        => (/\ QueueFor(Self, p) = <<>>
            /\ p \notin DOMAIN pending_friend_request_responses[Self])

\* C39 witness: a peer is connected whose connection drained a buffered
\* response and a queued direct message
C39_Witness ==
    /\ last.kind = "ConnectionEstablished"
    /\ is_connected(Self, last.peer)
    /\ ResponsesTo(sent[Self], last.peer) # {}
    /\ DirectMessagesIn(sent[Self]) # {}
    /\ outbound_direct_messages[Self] = EmptyMap

\* the mutex task t is waiting for, NoTask's name when it waits for none
WaitsFor(t) ==
    CASE locks.pc[t] = "lock_first" -> LockOrder[1]
      [] locks.pc[t] = "lock_second" -> LockOrder[2]
      [] locks.pc[t] \in {"push_lock", "clone_lock"} -> "listen_addresses"
      [] locks.pc[t] \in {"store_lock", "relay_lock"} -> "relay_addr"
      [] OTHER -> "none"

\* t waits for a mutex that u holds
Blocks(u, t) == WaitsFor(t) \in LockNames /\ locks.holder[WaitsFor(t)] = u

\* C40: the loop task and the get_listen_addresses callers never deadlock on
\* the two mutexes: no task that holds relay_addr asks for listen_addresses
\* (where both are held, listen_addresses was locked first), no two tasks
\* wait for each other, and every task that holds a mutex releases it.
C40_NoDeadlockOnAddressMutexes ==
    /\ [](\A t \in Tasks : locks.holder["relay_addr"] = t => WaitsFor(t) # "listen_addresses")
    /\ [](\A t, u \in Tasks : ~(t # u /\ Blocks(u, t) /\ Blocks(t, u)))
    /\ \A t \in Tasks : \A l \in LockNames :
          (locks.holder[l] = t) ~> (locks.holder[l] # t)

\* C40 witness: the loop holds both mutexes while one caller waits for
\* listen_addresses and the other for relay_addr
C40_Witness ==
    /\ locks.pc["loop"] = "handler_body"
    /\ locks.holder = [l \in LockNames |-> "loop"]
    /\ \E c, d \in Callers : locks.pc[c] = "clone_lock" /\ locks.pc[d] = "relay_lock"

=============================================================================
